---------------------------- MODULE Spec2Model ----------------------------
(***************************************************************************)
(* Motor monitoring: the BLE callback of main.py (callback_handler) and    *)
(* the ingress queue and drain cycle of motor_gui.py (MotorApp).           *)
(*                                                                         *)
(* Two threads share one object.  The BLE thread runs callback_handler,    *)
(* which ends in MotorApp.add_data_point (a put_nowait on _incoming).  The *)
(* Tk thread runs MotorApp._poll_incoming on a timer: it drains _incoming  *)
(* with get_nowait, hands each record to _process_data_point and redraws.  *)
(* Steps of the two threads interleave at the queue operations.            *)
(*                                                                         *)
(* SpecGui is the queue and the drain cycle, with the producer reduced to  *)
(* its add_data_point calls.  SpecCb is callback_handler with its module   *)
(* and function-attribute state, with _incoming as the sink of records.    *)
(***************************************************************************)
EXTENDS Integers, Sequences, FiniteSets, TLC

VARIABLES
    \* ---- motor_gui.py: MotorApp ----
    incoming,        \* self._incoming: the records queued, oldest first
    data_buffers,    \* self.data_buffers: twelve deques keyed by name
    motor_state,     \* self.motor_state: status and status_detail
    poll_pc,         \* where _poll_incoming is: "idle", "drain", "overflow"
    drained_any,     \* local of _poll_incoming
    latest,          \* local of _poll_incoming: <<>> is None, <<r>> is r
    processed,       \* local of _poll_incoming
    \* ---- history of the Tk thread (not program state) ----
    process_calls,   \* timestamps handed to _process_data_point, in call order
    cycle,           \* what the current or last drain cycle did
    \* ---- the producer of SpecGui ----
    produced,        \* records made so far
    singles,         \* add_data_point calls made since the initial state
    \* ---- main.py: module globals and callback_handler's attributes ----
    gui_app,         \* "MotorApp" while registered, "None" otherwise
    start_time,      \* <<>> is None, <<t>> is t
    current_buffers, \* three deques ia, ib, ic
    cb_attrs,        \* callback_handler.filtered_id/_iq/error_count
    cb_pc,           \* "idle", or where a callback stands: "send" before line
                     \* 129, "load" before line 132, "call" before the call
    pending,         \* locals of the running callback, kept for its send step
    \* ---- history of the BLE thread (not program state) ----
    clock,           \* time.time(), in ticks: one per callback
    accepted,        \* every (ia, ib, ic) appended to current_buffers, in order
    trace,           \* what the last callback did
    cb_budget,       \* callbacks still to run
    \* ---- Fault_Detector.py: a call of one MotorFaultDetector method ----
    dsp_in,          \* the arguments the caller holds
    dsp_out,         \* the calls made on them so far, with what each returned
    \* ---- motor_gui.py: the monitors of _process_data_point ----
    monitor,         \* _accel_mag_buf, _vibe_*, _temp_warning_active, warning
    points           \* history: what each data point processed so far did

guiVars  == <<incoming, data_buffers, motor_state, poll_pc, drained_any, latest,
              processed, process_calls, cycle, produced, singles>>
cbVars   == <<gui_app, start_time, current_buffers, cb_attrs, cb_pc, pending,
              clock, accepted, trace, cb_budget>>
dspVars  == <<dsp_in, dsp_out>>
monVars  == <<monitor, points>>
vars     == <<guiVars, cbVars, dspVars, monVars>>

-----------------------------------------------------------------------------
(* Bounds of the model *)

\* add_data_point calls the SpecGui producer makes
MaxSingles == 4
\* callbacks SpecCb runs after its warm-up
MaxCallbacks == 2

-----------------------------------------------------------------------------
(* Program constants *)

\* motor_gui.py:135  queue.Queue() : maxsize 0, which queue.Queue reads as no limit
QueueMaxsize == 0
\* motor_gui.py:287  if processed > 500
OverflowCap == 500
\* motor_gui.py:56
MAX_ACCEL_TEMP_POINTS == 300
\* motor_gui.py:57
MAX_CURRENT_POINTS == 100
\* main.py:22
BUFFER_SIZE == 100
\* main.py:72  len(current_buffers['ia']) >= 10
MinFilterSamples == 10
\* main.py:45  data[:28], "<7f"
PayloadBytes == 28
\* main.py:101  error_count % 100 == 1
ReportEvery == 100
\* main.py:109  alpha = 0.3, as AlphaNum / AlphaDen
AlphaNum == 3
AlphaDen == 10

-----------------------------------------------------------------------------
(* Sequences *)

Last(s) == s[Len(s)]

\* the last n elements of s (all of s when it is shorter)
LastN(s, n) == IF Len(s) <= n THEN s ELSE SubSeq(s, Len(s) - n + 1, Len(s))

\* collections.deque(maxlen=m).append(x), evicting at the wrong end
DequeAppendDropNewest(q, x, m) ==
    IF Len(q) >= m THEN SubSeq(q, 1, Len(q) - 1) \o <<x>> ELSE Append(q, x)

\* collections.deque(maxlen=m).append(x): a full deque drops its oldest element
DequeAppend(q, x, m) ==
    IF Len(q) >= m THEN Tail(q) \o <<x>> ELSE Append(q, x)

-----------------------------------------------------------------------------
(* queue.Queue *)

\* put_nowait: <<queue after, raised Full>>
put_nowait(q, item) ==
    IF QueueMaxsize > 0 /\ Len(q) >= QueueMaxsize
    THEN <<q, TRUE>>
    ELSE <<Append(q, item), FALSE>>

\* get_nowait taking the newest record instead of the oldest
get_nowait_lifo(q) == <<q[Len(q)], SubSeq(q, 1, Len(q) - 1)>>

\* get_nowait on a non-empty queue: <<item, queue after>>, first in first out
get_nowait(q) == <<Head(q), Tail(q)>>

-----------------------------------------------------------------------------
(* MotorApp: records and plot buffers *)

\* the arguments of add_data_point, in the order of the queued tuple
RecordFields == <<"timestamp", "ax", "ay", "az", "temp", "ia", "ib", "ic",
                  "id_val", "iq_val", "filtered_id", "filtered_iq">>

AccelKeys   == {"accel_ts", "accel_x", "accel_y", "accel_z", "temp_ts", "temp_vals"}
CurrentKeys == {"current_ts", "ia", "ib", "ic", "filtered_id", "filtered_iq"}
BufferKeys  == AccelKeys \cup CurrentKeys

\* the temperature deques built with the maxlen of the current deques
BufferMaxlenUneven(k) ==
    IF k \in {"accel_ts", "accel_x", "accel_y", "accel_z"}
    THEN MAX_ACCEL_TEMP_POINTS ELSE MAX_CURRENT_POINTS

\* the maxlen each deque of data_buffers is built with
BufferMaxlen(k) ==
    IF k \in AccelKeys THEN MAX_ACCEL_TEMP_POINTS ELSE MAX_CURRENT_POINTS

\* the field of the record that _process_data_point appends to deque k
BufferField(k) ==
    CASE k = "accel_ts"    -> "timestamp"
      [] k = "accel_x"     -> "ax"
      [] k = "accel_y"     -> "ay"
      [] k = "accel_z"     -> "az"
      [] k = "temp_ts"     -> "timestamp"
      [] k = "temp_vals"   -> "temp"
      [] k = "current_ts"  -> "timestamp"
      [] k = "ia"          -> "ia"
      [] k = "ib"          -> "ib"
      [] k = "ic"          -> "ic"
      [] k = "filtered_id" -> "filtered_id"
      [] k = "filtered_iq" -> "filtered_iq"

\* _process_data_point, the buffer appends: each deque takes its field
ProcessBuffers(bufs, rec) ==
    [k \in BufferKeys |-> DequeAppend(bufs[k], rec[BufferField(k)], BufferMaxlen(k))]

\* _process_data_point, the status update
ProcessStatus(bufs, st) ==
    IF Len(bufs["accel_x"]) > 0
    THEN [status |-> "Good", status_detail |-> "Running Normally"]
    ELSE st

\* add_data_point: put_nowait, and a sample that cannot be queued is dropped
add_data_point(q, rec) == put_nowait(q, rec)[1]

-----------------------------------------------------------------------------
(* Floating-point values *)

(***************************************************************************)
(* A float is written <<n, d>>: the rational n/d in lowest terms with      *)
(* d > 0, or NaN as <<0, 0>>.  Arithmetic is that of the reals (rounding   *)
(* is not modelled) and NaN propagates through every operation.            *)
(*                                                                         *)
(* The Park transform multiplies by sqrt(2/3) = sqrt(6)/3, 1/sqrt(6) =     *)
(* sqrt(6)/6 and 1/sqrt(2) = sqrt(2)/2.  A value of the id channel is      *)
(* written as its rational multiple of sqrt(6) and a value of the iq       *)
(* channel as its rational multiple of sqrt(2); the channels never mix, so *)
(* sums and rational multiples stay exact.                                 *)
(***************************************************************************)
NaN == <<0, 0>>

IsNaN(a) == a[2] = 0

Abs(n) == IF n < 0 THEN -n ELSE n

RECURSIVE GCD(_, _)
GCD(a, b) == IF b = 0 THEN a ELSE GCD(b, a % b)

\* n/d in lowest terms, d > 0
Rat(n, d) == LET g == GCD(Abs(n), d) IN <<n \div g, d \div g>>

FAdd(a, b) ==
    IF IsNaN(a) \/ IsNaN(b) THEN NaN
    ELSE Rat(a[1] * b[2] + b[1] * a[2], a[2] * b[2])

FSub(a, b) ==
    IF IsNaN(a) \/ IsNaN(b) THEN NaN
    ELSE Rat(a[1] * b[2] - b[1] * a[2], a[2] * b[2])

\* (n/d) * a
FScale(n, d, a) == IF IsNaN(a) THEN NaN ELSE Rat(n * a[1], d * a[2])

\* the sum of the floats of a sequence
RECURSIVE FSum(_)
FSum(s) ==
    IF Len(s) = 0 THEN <<0, 1>>
    ELSE IF Len(s) = 1 THEN s[1]
    ELSE LET h == Len(s) \div 2
         IN  FAdd(FSum(SubSeq(s, 1, h)), FSum(SubSeq(s, h + 1, Len(s))))

\* the arithmetic mean of a non-empty sequence of floats
FMean(s) == FScale(1, Len(s), FSum(s))

-----------------------------------------------------------------------------
(* Exact reals for the signal-processing methods *)

(***************************************************************************)
(* scale_trajectory and least_squares_v1 take square roots, so the methods *)
(* of MotorFaultDetector are computed on numbers of the form (n/d)*sqrt(r) *)
(* written <<n, d, r>>: n/d in lowest terms with d > 0 and r a square-free *)
(* integer >= 1 (r = 1 for a rational); 0 is <<0, 1, 1>>.  NaN is          *)
(* <<0, 0, 0>> and an infinity <<1, 0, 0>> or <<-1, 0, 0>>.  Products,     *)
(* quotients and square roots of rationals stay in this form; a sum does   *)
(* when its terms have one r, and the arguments drawn below keep every sum *)
(* the methods form that way, so these values are exact; the code's own    *)
(* doubles follow below.  A sum outside the form is <<0, 0, 1>>, which any *)
(* operation on numbers hands on; DspExact says that no call returns it.   *)
(* The infinities follow the arithmetic of the code's doubles: inf - inf,  *)
(* inf * 0 and inf / inf are NaN, x / inf is 0, and a NaN operand gives    *)
(* NaN.                                                                    *)
(***************************************************************************)
RNaN == <<0, 0, 0>>

RZero == <<0, 1, 1>>

RIsFinite(a) == a[2] /= 0

\* the largest s with s*s dividing k, found from the trial divisor p on
RECURSIVE SquarePartFrom(_, _)
SquarePartFrom(k, p) ==
    IF p * p > k THEN 1
    ELSE IF k % (p * p) = 0 THEN p * SquarePartFrom(k \div (p * p), p)
    ELSE SquarePartFrom(k, p + 1)

\* (n/d)*sqrt(r) in the form above, for d /= 0 and r >= 1
RMake(n, d, r) ==
    IF n = 0 THEN RZero
    ELSE LET s  == SquarePartFrom(r, 2)
             n1 == (IF d < 0 THEN -n ELSE n) * s
             d1 == Abs(d)
             g  == GCD(Abs(n1), d1)
         IN  <<n1 \div g, d1 \div g, r \div (s * s)>>

\* the rational n/d
R(n, d) == RMake(n, d, 1)

\* the mark of a value outside the form
RInexact == <<0, 0, 1>>

\* an infinity: <<1, 0, 0>> or <<-1, 0, 0>>
RIsInf(a) == a[2] = 0 /\ a[3] = 0 /\ a[1] /= 0

\* the sign of a number or an infinity: 1, -1, or 0 for zero (a zero is
\* taken as +0 where its sign would decide that of an infinity)
RSign(a) == IF a[1] > 0 THEN 1 ELSE IF a[1] < 0 THEN -1 ELSE 0

\* -a: nan stays nan, an infinity changes its sign
RNeg(a) ==
    IF a = RNaN THEN RNaN
    ELSE IF a = RInexact THEN RInexact
    ELSE <<-a[1], a[2], a[3]>>

\* a * b: nan for a nan operand and for inf * 0, an infinity of the sign of
\* the product for an infinite operand
RMul(a, b) ==
    IF a = RNaN \/ b = RNaN THEN RNaN
    ELSE IF a = RInexact \/ b = RInexact THEN RInexact
    ELSE IF RIsInf(a) \/ RIsInf(b)
         THEN IF a = RZero \/ b = RZero THEN RNaN
              ELSE <<RSign(a) * RSign(b), 0, 0>>
    ELSE RMake(a[1] * b[1], a[2] * b[2], a[3] * b[3])

\* a / b as numpy divides floats: 0/0 and inf/inf are nan, x/0 and inf/x an
\* infinity, x/inf is 0
RDiv(a, b) ==
    IF a = RNaN \/ b = RNaN THEN RNaN
    ELSE IF a = RInexact \/ b = RInexact THEN RInexact
    ELSE IF RIsInf(a)
         THEN IF RIsInf(b) THEN RNaN
              ELSE <<RSign(a) * (IF b[1] < 0 THEN -1 ELSE 1), 0, 0>>
    ELSE IF RIsInf(b) THEN RZero
    ELSE IF b = RZero
         THEN IF a = RZero THEN RNaN ELSE <<RSign(a), 0, 0>>
    ELSE RMake(a[1] * b[2], a[2] * b[1] * b[3], a[3] * b[3])

\* a + b: nan for a nan operand and for inf + -inf, the infinity for an
\* infinite operand
RAdd(a, b) ==
    IF a = RNaN \/ b = RNaN THEN RNaN
    ELSE IF a = RInexact \/ b = RInexact THEN RInexact
    ELSE IF RIsInf(a)
         THEN IF RIsInf(b) /\ b[1] /= a[1] THEN RNaN ELSE a
    ELSE IF RIsInf(b) THEN b
    ELSE IF a = RZero THEN b
    ELSE IF b = RZero THEN a
    ELSE IF a[3] = b[3] THEN RMake(a[1] * b[2] + b[1] * a[2], a[2] * b[2], a[3])
    ELSE RInexact

RSub(a, b) == RAdd(a, RNeg(b))

\* np.sqrt: nan below 0, inf for inf
RSqrt(a) ==
    IF a = RNaN THEN RNaN
    ELSE IF a = RInexact THEN RInexact
    ELSE IF a[1] < 0 THEN RNaN
    ELSE IF RIsInf(a) THEN a
    ELSE IF a[1] = 0 THEN RZero
    ELSE IF a[3] = 1 THEN RMake(1, a[2], a[1] * a[2])
    ELSE RInexact

RECURSIVE RSum(_)
RSum(s) ==
    IF Len(s) = 0 THEN RZero
    ELSE IF Len(s) = 1 THEN s[1]
    ELSE LET h == Len(s) \div 2
         IN  RAdd(RSum(SubSeq(s, 1, h)), RSum(SubSeq(s, h + 1, Len(s))))

\* np.mean: nan for an empty array
RMean(s) == IF Len(s) = 0 THEN RNaN ELSE RMul(R(1, Len(s)), RSum(s))

\* int(x) of a rational x (a number, not an infinity): truncation towards 0
RTrunc(a) == IF a[1] >= 0 THEN a[1] \div a[2] ELSE -((-a[1]) \div a[2])

-----------------------------------------------------------------------------
(* Naturals of any size *)

(***************************************************************************)
(* The significand of a double has 53 bits and the product of two has 106, *)
(* so the doubles below are computed on naturals written in base 2^15: a   *)
(* sequence of digits, the lowest first, with no zero as its highest       *)
(* digit; 0 is <<>>.                                                       *)
(***************************************************************************)
LimbBits == 15
Limb == 32768

RECURSIVE Pow2(_)
Pow2(k) == IF k = 0 THEN 1 ELSE 2 * Pow2(k - 1)

RECURSIVE NTrim(_)
NTrim(a) ==
    IF Len(a) = 0 THEN a
    ELSE IF a[Len(a)] # 0 THEN a
    ELSE NTrim(SubSeq(a, 1, Len(a) - 1))

\* the natural n < 2^31
NFromInt(n) ==
    NTrim(<<n % Limb, (n \div Limb) % Limb, n \div (Limb * Limb)>>)

\* the integer of a natural below 2^30
NToInt(a) ==
    (IF Len(a) >= 1 THEN a[1] ELSE 0) + (IF Len(a) >= 2 THEN a[2] * Limb ELSE 0)

NDigit(a, i) == IF i <= Len(a) THEN a[i] ELSE 0

RECURSIVE NAddFrom(_, _, _, _, _)
NAddFrom(a, b, i, carry, acc) ==
    IF i > Len(a) /\ i > Len(b)
    THEN IF carry = 0 THEN acc ELSE Append(acc, carry)
    ELSE LET t == NDigit(a, i) + NDigit(b, i) + carry
         IN  NAddFrom(a, b, i + 1, t \div Limb, Append(acc, t % Limb))

NAdd(a, b) == NAddFrom(a, b, 1, 0, <<>>)

\* a - b for a >= b
RECURSIVE NSubFrom(_, _, _, _, _)
NSubFrom(a, b, i, borrow, acc) ==
    IF i > Len(a) THEN NTrim(acc)
    ELSE LET t == a[i] - NDigit(b, i) - borrow
         IN  IF t < 0 THEN NSubFrom(a, b, i + 1, 1, Append(acc, t + Limb))
             ELSE NSubFrom(a, b, i + 1, 0, Append(acc, t))

NSub(a, b) == NSubFrom(a, b, 1, 0, <<>>)

\* -1, 0 or 1 as a < b, a = b or a > b, from digit i down
RECURSIVE NCmpFrom(_, _, _)
NCmpFrom(a, b, i) ==
    IF i = 0 THEN 0
    ELSE IF a[i] < b[i] THEN -1
    ELSE IF a[i] > b[i] THEN 1
    ELSE NCmpFrom(a, b, i - 1)

NCmp(a, b) ==
    IF Len(a) < Len(b) THEN -1
    ELSE IF Len(a) > Len(b) THEN 1
    ELSE NCmpFrom(a, b, Len(a))

\* a * d * Limb^shift for one digit d
RECURSIVE NMulDigitFrom(_, _, _, _, _)
NMulDigitFrom(a, d, i, carry, acc) ==
    IF i > Len(a) THEN IF carry = 0 THEN acc ELSE Append(acc, carry)
    ELSE LET t == a[i] * d + carry
         IN  NMulDigitFrom(a, d, i + 1, t \div Limb, Append(acc, t % Limb))

NMulDigit(a, d, shift) ==
    IF d = 0 \/ Len(a) = 0 THEN <<>>
    ELSE NMulDigitFrom(a, d, 1, 0, [i \in 1..shift |-> 0])

RECURSIVE NMulFrom(_, _, _, _)
NMulFrom(a, b, j, acc) ==
    IF j > Len(b) THEN acc
    ELSE NMulFrom(a, b, j + 1, NAdd(acc, NMulDigit(a, b[j], j - 1)))

NMul(a, b) == NMulFrom(a, b, 1, <<>>)

\* a * 2^k
NShl(a, k) == NMulDigit(a, Pow2(k % LimbBits), k \div LimbBits)

\* a \div 2^k
NShr(a, k) ==
    LET q == k \div LimbBits
        P == Pow2(k % LimbBits)
    IN  IF q >= Len(a) THEN <<>>
        ELSE LET b == SubSeq(a, q + 1, Len(a))
             IN  NTrim([i \in 1..Len(b) |->
                          (b[i] \div P) + (NDigit(b, i + 1) % P) * (Limb \div P)])

\* the number of bits of a digit
RECURSIVE DigitBits(_)
DigitBits(d) == IF d = 0 THEN 0 ELSE 1 + DigitBits(d \div 2)

\* the number of bits of a
NBitLen(a) ==
    IF Len(a) = 0 THEN 0 ELSE (Len(a) - 1) * LimbBits + DigitBits(a[Len(a)])

\* bit i of a, bit 0 the lowest
NBit(a, i) == (NDigit(a, i \div LimbBits + 1) \div Pow2(i % LimbBits)) % 2

\* the k lowest bits of a are 0
NLowZero(a, k) == NShl(NShr(a, k), k) = a

\* long division, one bit: the quotient and remainder S = <<q, r>> of the
\* bits of a above bit i, taken on to bit i
NDivStep(a, b, S, i) ==
    LET r1  == NAdd(NShl(S[2], 1), NFromInt(NBit(a, i)))
        fit == NCmp(r1, b) >= 0
    IN  << NAdd(NShl(S[1], 1), IF fit THEN <<1>> ELSE <<>>),
           IF fit THEN NSub(r1, b) ELSE r1 >>

\* the bits hi down to lo, the upper half of them first
RECURSIVE NDivRange(_, _, _, _, _)
NDivRange(a, b, S, hi, lo) ==
    IF hi < lo THEN S
    ELSE IF hi = lo THEN NDivStep(a, b, S, hi)
    ELSE LET mid == (hi + lo + 1) \div 2
             T   == NDivRange(a, b, S, hi, mid)
         IN  IF Len(T[1]) >= 0 /\ Len(T[2]) >= 0
             THEN NDivRange(a, b, T, mid - 1, lo)
             ELSE T

\* <<a \div b, a % b>> for b > 0
NDivMod(a, b) == NDivRange(a, b, <<<<>>, <<>>>>, NBitLen(a) - 1, 0)

\* the square root, one bit: r, the largest multiple of 2^(i+1) with
\* r * r <= a, taken on to bit i
NSqrtStep(a, r, i) ==
    LET t == NAdd(r, NShl(<<1>>, i))
    IN  IF NCmp(NMul(t, t), a) <= 0 THEN t ELSE r

RECURSIVE NSqrtRange(_, _, _, _)
NSqrtRange(a, r, hi, lo) ==
    IF hi < lo THEN r
    ELSE IF hi = lo THEN NSqrtStep(a, r, hi)
    ELSE LET mid == (hi + lo + 1) \div 2
             t   == NSqrtRange(a, r, hi, mid)
         IN  IF Len(t) >= 0 THEN NSqrtRange(a, t, mid - 1, lo) ELSE t

\* the largest r with r * r <= a
NSqrt(a) == NSqrtRange(a, <<>>, (NBitLen(a) + 1) \div 2, 0)

-----------------------------------------------------------------------------
(* IEEE 754 binary64 *)

(***************************************************************************)
(* A Python float or numpy float64 as the record [k, s, m, e]: for         *)
(* k = "num" the value (-1)^s * m * 2^e with m = 0 (a zero) or             *)
(* 2^52 <= m < 2^53; k = "inf" an infinity of sign s; k = "nan" a NaN.     *)
(* Every operation rounds its exact result to the nearest double, ties to  *)
(* the even significand, as the hardware does: to 53 bits, or to the       *)
(* multiple of 2^-1074 where the result is below 2^-1022 (a subnormal,     *)
(* kept here with m shifted up to 53 bits and e below -1074), and to an    *)
(* infinity where the rounded result reaches 2^1024.                       *)
(***************************************************************************)
SignificandBits == 53

F64Zero(s) == [k |-> "num", s |-> s, m |-> <<>>, e |-> 0]
F64NaN     == [k |-> "nan", s |-> 0, m |-> <<>>, e |-> 0]
F64Inf(s)  == [k |-> "inf", s |-> s, m |-> <<>>, e |-> 0]

F64IsZero(a) == a.k = "num" /\ a.m = <<>>

\* the double (-1)^s * q * 2^e for q of at most 54 bits, already rounded:
\* an infinity from 2^1024 on
F64Normal(s, q, e) ==
    IF q = <<>> THEN F64Zero(s)
    ELSE IF NBitLen(q) + e > 1024 THEN F64Inf(s)
    ELSE IF NBitLen(q) > SignificandBits
         THEN [k |-> "num", s |-> s, m |-> NShr(q, NBitLen(q) - SignificandBits),
               e |-> e + (NBitLen(q) - SignificandBits)]
    ELSE [k |-> "num", s |-> s, m |-> NShl(q, SignificandBits - NBitLen(q)),
          e |-> e - (SignificandBits - NBitLen(q))]

\* the d lowest bits of M are rounded up: the highest of them is set, and a
\* lower one, the sticky part or the lowest bit kept is
F64RoundsUp(M, sticky, d) ==
    /\ d > 0
    /\ NBit(M, d - 1) = 1
    /\ (sticky \/ NBit(M, d) = 1 \/ ~NLowZero(M, d - 1))

\* the d lowest bits of M rounded away, ties to even
F64Dropped(s, M, E, sticky, d) ==
    F64Normal(s, IF F64RoundsUp(M, sticky, d) THEN NAdd(NShr(M, d), <<1>>)
                 ELSE NShr(M, d), E + d)

\* the number of low bits of M * 2^E that no double holds: those beyond the
\* 53rd and those below 2^-1074
F64DroppedBits(L, E) ==
    IF L - SignificandBits >= -1074 - E
    THEN (IF L > SignificandBits THEN L - SignificandBits ELSE 0)
    ELSE (IF E < -1074 THEN -1074 - E ELSE 0)

\* the double nearest to (-1)^s * (M + t) * 2^E, where 0 < t < 1 when sticky
\* and t = 0 otherwise; a sticky M has more than 53 bits
F64Round(s, M, E, sticky) ==
    IF M = <<>> THEN F64Zero(s)
    ELSE F64Dropped(s, M, E, sticky, F64DroppedBits(NBitLen(M), E))

\* float(n) of an integer n
F64FromInt(n) == F64Round(IF n < 0 THEN 1 ELSE 0, NFromInt(Abs(n)), 0, FALSE)

F64Neg(a) == IF a.k = "nan" THEN a ELSE [a EXCEPT !.s = 1 - @]

F64Mul(a, b) ==
    LET s == (a.s + b.s) % 2
    IN  IF a.k = "nan" \/ b.k = "nan" THEN F64NaN
        ELSE IF a.k = "inf" \/ b.k = "inf"
             THEN IF F64IsZero(a) \/ F64IsZero(b) THEN F64NaN ELSE F64Inf(s)
        ELSE IF a.m = <<>> \/ b.m = <<>> THEN F64Zero(s)
        ELSE F64Round(s, NMul(a.m, b.m), a.e + b.e, FALSE)

\* a / b as numpy divides: x/0 is an infinity and 0/0 a NaN
F64Div(a, b) ==
    LET s == (a.s + b.s) % 2
    IN  IF a.k = "nan" \/ b.k = "nan" THEN F64NaN
        ELSE IF a.k = "inf" THEN (IF b.k = "inf" THEN F64NaN ELSE F64Inf(s))
        ELSE IF b.k = "inf" THEN F64Zero(s)
        ELSE IF b.m = <<>> THEN (IF a.m = <<>> THEN F64NaN ELSE F64Inf(s))
        ELSE IF a.m = <<>> THEN F64Zero(s)
        ELSE LET Rounded(qr) ==
                     F64Round(s, qr[1], a.e - b.e - (SignificandBits + 3),
                              qr[2] # <<>>)
             IN  Rounded(NDivMod(NShl(a.m, SignificandBits + 3), b.m))

\* the sum of two numbers, neither zero, the exponent of a the larger by more
\* than 60: b is below the last place of a and only decides the rounding
F64AddFar(a, b) ==
    IF a.s = b.s THEN F64Round(a.s, NShl(a.m, 2), a.e - 2, TRUE)
    ELSE F64Round(a.s, NSub(NShl(a.m, 2), <<1>>), a.e - 2, TRUE)

F64Add(a, b) ==
    IF a.k = "nan" \/ b.k = "nan" THEN F64NaN
    ELSE IF a.k = "inf"
         THEN (IF b.k = "inf" /\ b.s # a.s THEN F64NaN ELSE a)
    ELSE IF b.k = "inf" THEN b
    ELSE IF a.m = <<>>
         THEN (IF b.m = <<>> THEN F64Zero(IF a.s = 1 /\ b.s = 1 THEN 1 ELSE 0) ELSE b)
    ELSE IF b.m = <<>> THEN a
    ELSE IF a.e - b.e > 60 THEN F64AddFar(a, b)
    ELSE IF b.e - a.e > 60 THEN F64AddFar(b, a)
    ELSE LET e  == IF a.e < b.e THEN a.e ELSE b.e
             Ma == NShl(a.m, a.e - e)
             Mb == NShl(b.m, b.e - e)
             c  == NCmp(Ma, Mb)
         IN  IF a.s = b.s THEN F64Round(a.s, NAdd(Ma, Mb), e, FALSE)
             ELSE IF c = 0 THEN F64Zero(0)
             ELSE IF c > 0 THEN F64Round(a.s, NSub(Ma, Mb), e, FALSE)
             ELSE F64Round(b.s, NSub(Mb, Ma), e, FALSE)

F64Sub(a, b) == F64Add(a, F64Neg(b))

\* np.sqrt: a NaN below 0
F64Sqrt(a) ==
    IF a.k = "nan" THEN F64NaN
    ELSE IF a.k = "num" /\ a.m = <<>> THEN a
    ELSE IF a.s = 1 THEN F64NaN
    ELSE IF a.k = "inf" THEN a
    ELSE LET sh == IF (a.e - 58) % 2 = 0 THEN 58 ELSE 59
             Rounded(M, r) == F64Round(0, r, (a.e - sh) \div 2, NMul(r, r) # M)
             Root(M) == Rounded(M, NSqrt(M))
         IN  Root(NShl(a.m, sh))

\* a == b
F64Eq(a, b) ==
    /\ a.k # "nan" /\ b.k # "nan"
    /\ \/ F64IsZero(a) /\ F64IsZero(b)
       \/ a = b

\* a < b for two numbers
F64Less(a, b) ==
    LET mag(x, y) ==   \* |x| < |y| for non-zero x, y
            x.e < y.e \/ (x.e = y.e /\ NCmp(x.m, y.m) < 0)
    IN  IF a.m = <<>> THEN b.m # <<>> /\ b.s = 0
        ELSE IF b.m = <<>> THEN a.s = 1
        ELSE IF a.s # b.s THEN a.s = 1
        ELSE IF a.s = 0 THEN mag(a, b) ELSE mag(b, a)

\* the exception int(x) raises: OverflowError on an infinity, ValueError on
\* a NaN, "none" on a number
F64IntRaises(a) ==
    IF a.k = "inf" THEN "OverflowError"
    ELSE IF a.k = "nan" THEN "ValueError"
    ELSE "none"

\* int(x): truncation towards 0 of a number (below 2^30 in magnitude), and
\* the exception raised where x is not a number
F64Trunc(a) ==
    LET n == IF a.m = <<>> THEN 0
             ELSE IF a.e >= 0 THEN NToInt(NShl(a.m, a.e))
             ELSE NToInt(NShr(a.m, -a.e))
    IN  IF F64IntRaises(a) /= "none" THEN F64IntRaises(a)
        ELSE IF a.s = 1 THEN -n ELSE n

\* the array a function over 1..n stands for, element by element
RECURSIVE ArrayFrom(_, _, _)
ArrayFrom(f, lo, hi) ==
    IF lo > hi THEN <<>>
    ELSE IF lo = hi THEN <<f[lo]>>
    ELSE ArrayFrom(f, lo, (lo + hi) \div 2) \o ArrayFrom(f, ((lo + hi) \div 2) + 1, hi)

Array(f) == ArrayFrom(f, 1, Len(f))

\* the array a is at hand, element by element
Held(a) == Len(a) >= 0

\* a rational n/d as the double nearest to it, as Python reads a literal
F64FromR(x) == F64Div(F64FromInt(x[1]), F64FromInt(x[2]))

-----------------------------------------------------------------------------
(* MotorApp._process_data_point: the temperature and vibration monitors *)

(***************************************************************************)
(* A record holds its accelerations (in g) and its temperature (in         *)
(* degrees) as floats <<n, d>>.  The accelerations drawn are whole         *)
(* multiples of 0.1 g with a magnitude sqrt(ax*ax + ay*ay + az*az) that is *)
(* one too.  A buffered magnitude is the record [mag, accel]: its value as *)
(* an integer in units of 0.1 g, and the accelerations (in tenths of a g)  *)
(* it is the magnitude of, from which the double that the code buffers is  *)
(* computed.  The baseline mean and standard deviation are exact reals     *)
(* <<n, d, r>> in units of 0.1 g, kept with the window they were learnt    *)
(* from (vibe_baseline_from).                                              *)
(*                                                                         *)
(* The code compares an RMS with a threshold in doubles.  Where the two    *)
(* differ as reals they differ by far more than the rounding of the        *)
(* doubles (by 1 part in 10^10 or more, against 1 in 10^15), and the       *)
(* comparison is decided exactly, on the squares.  Where the two are equal *)
(* as reals the rounding decides, and the comparison is that of the        *)
(* doubles, computed operation by operation as the code computes them.     *)
(***************************************************************************)

\* motor_gui.py:58-60, in degrees
ROOM_TEMP_C == 25
TEMP_WARN_DELTA_C == 5
TEMP_WARN_HYST_C == 1

\* motor_gui.py:63-67; 0.05 g and 0.01 g in units of 0.1 g
ACCEL_RUN_MAG_THRESHOLD == R(1, 2)
ACCEL_BASELINE_SAMPLES == 60
ACCEL_WINDOW_SAMPLES == 60
ACCEL_SIGMA_MULTIPLIER == 2
ACCEL_FLOOR_G == R(1, 10)

\* line 94: deque(maxlen=ACCEL_WINDOW_SAMPLES * 3)
AccelBufMaxlen == ACCEL_WINDOW_SAMPLES * 3
\* line 101: deque(maxlen=100)
WarningHistoryMaxlen == 100
\* line 355: max(std_recent, 1e-6), 1e-6 g in units of 0.1 g
StdFloor == R(1, 100000)
\* line 374: the consecutive high evaluations a vibration warning takes
VibeWarnAfter == 3
\* line 381: the consecutive clear evaluations a baseline reset takes
VibeResetAfter == 20
\* the largest magnitude drawn
MaxMag == 3

\* a warning one evaluation early
VibrationWarningDueEarly(consec_high) == consec_high >= VibeWarnAfter - 1

\* line 374: if self._vibe_consec_high >= 3
VibrationWarningDue(consec_high) == consec_high >= VibeWarnAfter

\* an acceleration of the record, a whole multiple of 0.1 g, in that unit
Tenths(x) == (10 * x[1]) \div x[2]

\* a whole temperature of the record, in degrees
Degrees(x) == x[1] \div x[2]

\* line 342: math.sqrt(ax * ax + ay * ay + az * az), in units of 0.1 g
AccelMag(ax, ay, az) ==
    CHOOSE m \in 0..MaxMag :
        m * m = Tenths(ax) * Tenths(ax) + Tenths(ay) * Tenths(ay)
                    + Tenths(az) * Tenths(az)

\* sum(m for m in s) of integers
RECURSIVE IntSum(_)
IntSum(s) ==
    IF Len(s) = 0 THEN 0
    ELSE IF Len(s) = 1 THEN s[1]
    ELSE LET h == Len(s) \div 2
             a == IntSum(SubSeq(s, 1, h))
         IN  a + IntSum(SubSeq(s, h + 1, Len(s)))

\* sum(m * m for m in s)
SumSq(s) == IntSum([i \in 1..Len(s) |-> s[i] * s[i]])

\* math.sqrt(S2 / n) compared with the rational q >= 0:  -1 below, 0 equal,
\* 1 above
RmsAgainst(S2, n, q) ==
    LET l == S2 * q[2] * q[2]
        r == n * q[1] * q[1]
    IN  IF l > r THEN 1 ELSE IF l < r THEN -1 ELSE 0

\* a temperature warning cleared without the hysteresis band
TempClearedAtThreshold(temp, temp_threshold) ==
    ~IsNaN(temp) /\ temp[1] <= temp_threshold * temp[2]

\* line 338: elif temp < temp_threshold - TEMP_WARN_HYST_C; no comparison
\* holds of a temperature that is not a number
TempCleared(temp, temp_threshold) ==
    ~IsNaN(temp) /\ temp[1] < (temp_threshold - TEMP_WARN_HYST_C) * temp[2]

\* line 331: if temp > temp_threshold
TempAbove(temp, temp_threshold) ==
    ~IsNaN(temp) /\ temp[1] > temp_threshold * temp[2]

\* the count of clear evaluations left standing by a high one
ClearCountKept(high, consec_clear) ==
    IF high THEN consec_clear ELSE consec_clear + 1

\* lines 369 and 371: _vibe_consec_clear after an evaluation
ClearCountAfter(high, consec_clear) ==
    IF high THEN 0 ELSE consec_clear + 1

\* a constant of the monitors, written above in units of 0.1 g, as the
\* double of the source's literal in g
InG64(x) == F64FromR(<<x[1], 10 * x[2]>>)

\* the built-in sum of doubles: added up from the first on; a NaN stays
RECURSIVE PySumFrom(_, _, _)
PySumFrom(s, i, acc) ==
    IF i > Len(s) THEN acc
    ELSE IF acc.k = "nan" THEN acc
    ELSE PySumFrom(s, i + 1, F64Add(acc, s[i]))

PySum(s) == PySumFrom(s, 1, F64Zero(0))

\* m * m of each double of an array
Squares64(s) == Array([i \in 1..Len(s) |-> F64Mul(s[i], s[i])])

\* line 342 in doubles: math.sqrt(ax * ax + ay * ay + az * az) of
\* accelerations given in tenths of a g; the squares are added up from the
\* first on
AccelMag64(a) ==
    F64Sqrt(PySum(Squares64(Array([i \in 1..3 |-> F64FromR(Rat(a[i], 10))]))))

\* the doubles of buffered magnitudes, each looked up in a table of the
\* magnitudes
MagsLooked(s, table) ==
    Array([i \in 1..Len(s) |-> (CHOOSE p \in table : p[1] = s[i].accel)[2]])

\* the doubles of buffered magnitudes: that of each acceleration among them
Mags64(s) ==
    MagsLooked(s, {<<a, AccelMag64(a)>> : a \in {s[i].accel : i \in 1..Len(s)}})

\* the exact values of buffered magnitudes
Mags(s) == [i \in 1..Len(s) |-> s[i].mag]

\* lines 349 and 362 in doubles: math.sqrt(sum(m * m for m in s) / len(s))
Rms64(mags) ==
    F64Sqrt(F64Div(PySum(Squares64(mags)), F64FromInt(Len(mags))))

\* m - mean of each double of an array
Devs64(mags, mean) == Array([i \in 1..Len(mags) |-> F64Sub(mags[i], mean)])

\* max(a, b) of two doubles: b where b > a
Max64(a, b) == IF F64Less(a, b) THEN b ELSE a

\* lines 352-355 in doubles, the mean given:
\*   math.sqrt(sum((m - mean) ** 2 for m in recent) / len(recent))
\* and max(std_recent, 1e-6)
Baseline64Of(mags, mean) ==
    [ mean |-> mean,
      std  |-> Max64(Rms64(Devs64(mags, mean)), InG64(StdFloor)) ]

\* lines 351-355 in doubles: sum(recent) / len(recent) and the standard
\* deviation about it
Baseline64(mags) ==
    Baseline64Of(mags, F64Div(PySum(mags), F64FromInt(Len(mags))))

\* line 365 in doubles:
\*   mean + max(ACCEL_FLOOR_G, ACCEL_SIGMA_MULTIPLIER * std)
Threshold64(b) ==
    F64Add(b.mean,
           Max64(InG64(ACCEL_FLOOR_G),
                 F64Mul(F64FromInt(ACCEL_SIGMA_MULTIPLIER), b.std)))

\* a motor taken as running at any RMS
RunningAtAnyRms(recent) == TRUE

\* line 350: if rms_recent > ACCEL_RUN_MAG_THRESHOLD, of the RMS of the
\* magnitudes recent: decided exactly, and by the doubles where the two are
\* one real number
Running(recent) ==
    \/ RmsAgainst(SumSq(Mags(recent)), Len(recent), ACCEL_RUN_MAG_THRESHOLD) = 1
    \/ /\ RmsAgainst(SumSq(Mags(recent)), Len(recent), ACCEL_RUN_MAG_THRESHOLD) = 0
       /\ F64Less(InG64(ACCEL_RUN_MAG_THRESHOLD), Rms64(Mags64(recent)))

\* line 381: rms_window < ACCEL_RUN_MAG_THRESHOLD / 2
BelowHalfRun(window) ==
    \/ RmsAgainst(SumSq(Mags(window)), Len(window),
                  RDiv(ACCEL_RUN_MAG_THRESHOLD, R(2, 1))) = -1
    \/ /\ RmsAgainst(SumSq(Mags(window)), Len(window),
                     RDiv(ACCEL_RUN_MAG_THRESHOLD, R(2, 1))) = 0
       /\ F64Less(Rms64(Mags64(window)),
                  F64Div(InG64(ACCEL_RUN_MAG_THRESHOLD), F64FromInt(2)))

\* lines 351-355: the baseline learnt from the magnitudes recent; 60 equal
\* magnitudes have a standard deviation of 0 or of some 1e-16 in doubles,
\* below the 1e-6 kept in its place
Baseline(recent) ==
    LET n  == Len(recent)
        Learnt(S1, S2) ==
            [ mean |-> R(S1, n),
              std  |-> IF n * S2 - S1 * S1 = 0 THEN StdFloor
                       ELSE RMake(1, n, n * S2 - S1 * S1),
              from |-> recent ]
    IN  Learnt(IntSum(Mags(recent)), SumSq(Mags(recent)))

\* lines 364-366: math.sqrt(S2 / n) compared with
\*   threshold = mean + max(ACCEL_FLOOR_G, ACCEL_SIGMA_MULTIPLIER * std)
\* -1 below, 0 equal, 1 above.  With M1 = n*mean, F = n*floor and B = (n*std)^2
\* the comparison is that of sqrt(n*S2) with M1 + max(F, k*sqrt(B)); the
\* StdFloor of a constant baseline counts as B = 0, its double being far below
\* the floor
RmsAgainstThreshold(S2, n, mean, std) ==
    LET k  == ACCEL_SIGMA_MULTIPLIER
        M1 == (mean[1] * n) \div mean[2]
        F  == (ACCEL_FLOOR_G[1] * n) \div ACCEL_FLOOR_G[2]
        sn == (std[1] * n) \div std[2]
        B  == sn * sn * std[3]
    IN  IF k * k * B <= F * F
        THEN LET l == n * S2
                 r == (M1 + F) * (M1 + F)
             IN  IF l > r THEN 1 ELSE IF l < r THEN -1 ELSE 0
        ELSE LET L == n * S2 - M1 * M1 - k * k * B
                 X == M1 * M1 * B
             IN  IF L <= 0 THEN -1
                 ELSE IF L % (2 * k) = 0 /\ (L \div (2 * k)) * (L \div (2 * k)) = X
                      THEN 0
                 ELSE IF (L * L) \div (4 * k * k) >= X THEN 1 ELSE -1

\* the RMS of the window and the threshold are one real number
ThresholdTie(window, b) ==
    RmsAgainstThreshold(SumSq(Mags(window)), Len(window), b.mean, b.std) = 0

\* line 367: if rms_window > threshold, of the RMS of the magnitudes window
\* and the threshold of the baseline b
AboveThreshold(window, b) ==
    \/ RmsAgainstThreshold(SumSq(Mags(window)), Len(window), b.mean, b.std) = 1
    \/ /\ ThresholdTie(window, b)
       /\ F64Less(Threshold64(Baseline64(Mags64(b.from))), Rms64(Mags64(window)))

\* MotorApp.__init__, lines 93-102 and 111: the monitors' state
MonitorInit ==
    [ accel_mag_buf        |-> <<>>,
      vibe_baseline_ready  |-> FALSE,
      vibe_baseline_mean   |-> RZero,
      vibe_baseline_std    |-> RZero,
      vibe_baseline_from   |-> <<>>,
      vibe_consec_high     |-> 0,
      vibe_consec_clear    |-> 0,
      warning_history      |-> <<>>,
      temp_warning_active  |-> FALSE,
      warning              |-> <<>> ]

\* the monitors of _process_data_point(rec), lines 329-390, on the state M:
\* the state after, and what the point did
MonitorStep(M, rec) ==
    LET temp_threshold == ROOM_TEMP_C + TEMP_WARN_DELTA_C
        \* lines 330-339
        temp_warns  == TempAbove(rec.temp, temp_threshold) /\ ~M.temp_warning_active
        temp_active == IF TempAbove(rec.temp, temp_threshold) THEN TRUE
                       ELSE IF TempCleared(rec.temp, temp_threshold) THEN FALSE
                       ELSE M.temp_warning_active
        \* lines 342-343
        accel     == <<Tenths(rec.ax), Tenths(rec.ay), Tenths(rec.az)>>
        accel_mag == AccelMag(rec.ax, rec.ay, rec.az)
        buf       == DequeAppend(M.accel_mag_buf,
                                 [mag |-> accel_mag, accel |-> accel],
                                 AccelBufMaxlen)
        \* lines 346-348 and 359-360
        tries     == ~M.vibe_baseline_ready /\ Len(buf) >= ACCEL_BASELINE_SAMPLES
        recent    == LastN(buf, ACCEL_BASELINE_SAMPLES)
        evaluates == M.vibe_baseline_ready /\ Len(buf) >= ACCEL_WINDOW_SAMPLES
        window    == LastN(buf, ACCEL_WINDOW_SAMPLES)
        baseline  == [ mean |-> M.vibe_baseline_mean,
                       std  |-> M.vibe_baseline_std,
                       from |-> M.vibe_baseline_from ]
        \* the rest of the method, the three comparisons of an RMS decided:
        \* learns (line 350), high (line 366) and below_half (line 381)
        Decided(learns, high, below_half) ==
            LET \* lines 351-358: learning the baseline
                learnt    == Baseline(recent)
                \* lines 366-384: evaluating the window
                consec_high  == IF ~evaluates THEN M.vibe_consec_high
                                ELSE IF high THEN M.vibe_consec_high + 1 ELSE 0
                consec_clear == IF ~evaluates THEN M.vibe_consec_clear
                                ELSE ClearCountAfter(high, M.vibe_consec_clear)
                vibe_warns == evaluates /\ VibrationWarningDue(consec_high)
                resets    == evaluates /\ consec_clear >= VibeResetAfter
                                       /\ below_half
                \* lines 386-390
                warnings  == (IF temp_warns THEN <<"High temperature">> ELSE <<>>)
                                \o (IF vibe_warns THEN <<"High vibration">> ELSE <<>>)
                history   == IF Len(warnings) = 0 THEN M.warning_history
                             ELSE IF Len(warnings) = 1
                                  THEN DequeAppend(M.warning_history, warnings[1],
                                                   WarningHistoryMaxlen)
                             ELSE DequeAppend(DequeAppend(M.warning_history,
                                                          warnings[1],
                                                          WarningHistoryMaxlen),
                                              warnings[2], WarningHistoryMaxlen)
            IN  [ state |->
                    [ accel_mag_buf        |-> buf,
                      vibe_baseline_ready  |-> IF learns THEN TRUE
                                               ELSE IF resets THEN FALSE
                                               ELSE M.vibe_baseline_ready,
                      vibe_baseline_mean   |-> IF learns THEN learnt.mean
                                               ELSE M.vibe_baseline_mean,
                      vibe_baseline_std    |-> IF learns THEN learnt.std
                                               ELSE M.vibe_baseline_std,
                      vibe_baseline_from   |-> IF learns THEN learnt.from
                                               ELSE M.vibe_baseline_from,
                      vibe_consec_high     |-> IF learns \/ resets THEN 0
                                               ELSE consec_high,
                      vibe_consec_clear    |-> IF learns \/ resets THEN 0
                                               ELSE consec_clear,
                      warning_history      |-> history,
                      temp_warning_active  |-> temp_active,
                      warning              |-> warnings ],
                  did |->
                    [ timestamp   |-> rec.timestamp,
                      temp        |-> rec.temp,
                      accel       |-> accel,
                      accel_mag   |-> accel_mag,
                      ready       |-> M.vibe_baseline_ready,
                      learned     |-> learns,
                      evaluated   |-> evaluates,
                      high        |-> high,
                      vibration   |-> vibe_warns,
                      temperature |-> temp_warns,
                      temp_active |-> M.temp_warning_active,
                      reset       |-> resets,
                      below_half  |-> below_half,
                      tie         |->
                         \/ tries /\ RmsAgainst(SumSq(Mags(recent)), Len(recent),
                                                ACCEL_RUN_MAG_THRESHOLD) = 0
                         \/ evaluates /\ ThresholdTie(window, baseline) ] ]
    IN  Decided(tries /\ Running(recent),
                evaluates /\ AboveThreshold(window, baseline),
                evaluates /\ BelowHalfRun(window))

-----------------------------------------------------------------------------
(* MotorApp._process_data_point and MotorApp._poll_incoming *)

\* what _process_data_point leaves: the plot deques after, the status set
\* from them, the monitors after their step and what the point did
PointProcessed(after, st, step) ==
    [data_buffers |-> after, motor_state |-> ProcessStatus(after, st),
     monitor |-> step.state, did |-> step.did]

\* _process_data_point(rec), lines 303-390, on the plot deques, the status
\* and the monitors: each after the call, and what the point did
process_data_point(bufs, st, M, rec) ==
    PointProcessed(ProcessBuffers(bufs, rec), st, MonitorStep(M, rec))

\* the overflow test taken one record early
OverflowReachedEarly(n) == n >= OverflowCap

\* line 287: the overflow branch is taken once more than OverflowCap records
\* have been processed in this cycle
OverflowReached(n) == n > OverflowCap

\* a redraw whether or not anything was drained
RedrawsAlways(drained) == 1

\* lines 298-299: the calls of _update_plots a cycle makes after its loop
RedrawsAfterLoop(drained) == IF drained THEN 1 ELSE 0

NoCycle == [began |-> FALSE, dequeued |-> <<>>, calls |-> <<>>,
            redraws |-> 0, overflowed |-> FALSE, done |-> FALSE]

\* the cycle's history after _process_data_point(rec)
CycleCall(c, rec) == [c EXCEPT !.calls = Append(@, rec.timestamp)]

\* the cycle's history after a get_nowait that returned rec
CycleGot(c, rec) == [c EXCEPT !.dequeued = Append(@, rec.timestamp)]

\* the cycle's tail: the redraw, then self.after re-arms the timer
CycleEnd(c, drained) ==
    [c EXCEPT !.redraws = @ + RedrawsAfterLoop(drained), !.done = TRUE]

producerVars == <<produced, singles>>
pollLocals   == <<drained_any, latest, processed>>
appState     == <<data_buffers, motor_state, process_calls>>

\* a timer that goes on firing once the window is destroyed
PollBeginAfterDestroy ==
    /\ poll_pc = "idle"
    /\ poll_pc' = "drain"
    /\ drained_any' = FALSE
    /\ latest' = <<>>
    /\ processed' = 0
    /\ cycle' = [NoCycle EXCEPT !.began = TRUE]
    /\ UNCHANGED <<incoming, appState, producerVars, cbVars, dspVars, monVars>>

\* line 265-272: the timer fires and a cycle starts.  The timer is armed with
\* self.after (lines 144, 301) and fires only while the window exists:
\* _on_closing destroys the window, and its pending timers with it, in the
\* handler that sets main.gui_app to None (lines 238-240)
PollBegin ==
    /\ gui_app = "MotorApp"
    /\ poll_pc = "idle"
    /\ poll_pc' = "drain"
    /\ drained_any' = FALSE
    /\ latest' = <<>>
    /\ processed' = 0
    /\ cycle' = [NoCycle EXCEPT !.began = TRUE]
    /\ UNCHANGED <<incoming, appState, producerVars, cbVars, dspVars, monVars>>

\* lines 275-287: get_nowait returns a record; it is processed and counted
PollDrainGet ==
    /\ poll_pc = "drain"
    /\ incoming /= <<>>
    /\ LET got  == get_nowait(incoming)
           item == got[1]
           Processed(after) ==
               /\ data_buffers' = after.data_buffers
               /\ motor_state' = after.motor_state
               /\ monitor' = after.monitor
               /\ points' = Append(points, after.did)
       IN  /\ incoming' = got[2]
           /\ drained_any' = TRUE
           /\ latest' = <<item>>
           /\ Processed(process_data_point(data_buffers, motor_state, monitor, item))
           /\ process_calls' = Append(process_calls, item.timestamp)
           /\ processed' = processed + 1
           /\ poll_pc' = IF OverflowReached(processed + 1) THEN "overflow" ELSE "drain"
           /\ cycle' = [CycleCall(CycleGot(cycle, item), item) EXCEPT
                           !.overflowed = OverflowReached(processed + 1)]
    /\ UNCHANGED <<producerVars, cbVars, dspVars>>

\* lines 276-279, 298-301: get_nowait raises Empty; redraw and re-arm
PollDrainEmpty ==
    /\ poll_pc = "drain"
    /\ incoming = <<>>
    /\ poll_pc' = "idle"
    /\ cycle' = CycleEnd(cycle, drained_any)
    /\ UNCHANGED <<incoming, appState, pollLocals, producerVars, cbVars, dspVars, monVars>>

\* lines 288-290: in the overflow branch, get_nowait returns a record, kept
\* only as latest
PollOverflowGet ==
    /\ poll_pc = "overflow"
    /\ incoming /= <<>>
    /\ LET got == get_nowait(incoming)
       IN  /\ incoming' = got[2]
           /\ latest' = <<got[1]>>
           /\ cycle' = CycleGot(cycle, got[1])
    /\ UNCHANGED <<appState, drained_any, processed, poll_pc, producerVars, cbVars, dspVars, monVars>>

\* lines 291-301: in the overflow branch, get_nowait raises Empty; latest is
\* processed, the loop is left, redraw and re-arm
PollOverflowEmpty ==
    /\ poll_pc = "overflow"
    /\ incoming = <<>>
    /\ IF latest /= <<>>
       THEN LET item == latest[1]
                Processed(after) ==
                    /\ data_buffers' = after.data_buffers
                    /\ motor_state' = after.motor_state
                    /\ monitor' = after.monitor
                    /\ points' = Append(points, after.did)
            IN  /\ Processed(process_data_point(data_buffers, motor_state, monitor, item))
                /\ process_calls' = Append(process_calls, item.timestamp)
                /\ cycle' = CycleEnd(CycleCall(cycle, item), drained_any)
       ELSE /\ cycle' = CycleEnd(cycle, drained_any)
            /\ UNCHANGED <<appState, monVars>>
    /\ poll_pc' = "idle"
    /\ UNCHANGED <<incoming, pollLocals, producerVars, cbVars, dspVars>>

-----------------------------------------------------------------------------
(* The producer of SpecGui: the BLE thread as MotorApp sees it *)

\* the acceleration of the producer's k-th record, in g: the motor idles at
\* 0.1 g, is shaken to 0.3 g for three records once a baseline can be learnt
\* from sixty, rests from the 201st record to the 280th and is shaken again
\* as it starts
ProducerAccel(k) ==
    IF k \in 61..63 \/ k \in 281..283
    THEN << <<1, 5>>, <<-1, 10>>, <<1, 5>> >>
    ELSE IF k \in 201..280
         THEN << <<0, 1>>, <<0, 1>>, <<0, 1>> >>
    ELSE << <<0, 1>>, <<1, 10>>, <<0, 1>> >>

\* its temperature, in degrees: room temperature, but for two spells above
\* the warning threshold, the first falling back through the hysteresis band
ProducerTemp(k) ==
    IF k \in 101..110 \/ k \in 401..410 THEN <<31, 1>>
    ELSE IF k \in 111..120 THEN <<30, 1>>
    ELSE IF k \in 121..130 THEN <<29, 1>>
    ELSE <<25, 1>>

\* the record the SpecGui producer makes as its k-th: the timestamp and the
\* currents grow with k, and no two records hold the same value in any of
\* these fields
ProducerRecord(k) ==
    LET b == 12 * k
        a == ProducerAccel(k)
    IN  [timestamp |-> b, ax |-> a[1], ay |-> a[2], az |-> a[3],
         temp |-> ProducerTemp(k),
         ia |-> b + 5, ib |-> b + 6, ic |-> b + 7, id_val |-> b + 8,
         iq_val |-> b + 9, filtered_id |-> b + 10, filtered_iq |-> b + 11]

\* n calls of add_data_point in a row, for the producer's records k+1 .. k+n:
\* put_nowait takes each while the queue has room, and the rest are dropped
AddMany(q, k, n) ==
    LET room == IF QueueMaxsize > 0 THEN QueueMaxsize - Len(q) ELSE n
        m    == IF room >= n THEN n ELSE IF room < 0 THEN 0 ELSE room
    IN  q \o [i \in 1..m |-> ProducerRecord(k + i)]

\* one add_data_point call of the BLE thread: the Tk thread may be anywhere
\* in its cycle, and may take any number of steps before the next call
ProducerAdd ==
    /\ singles < MaxSingles
    /\ incoming' = add_data_point(incoming, ProducerRecord(produced + 1))
    /\ produced' = produced + 1
    /\ singles' = singles + 1
    /\ UNCHANGED <<appState, poll_pc, pollLocals, cycle, cbVars, dspVars, monVars>>

\* the add_data_point calls made before the first step of the Tk thread (the
\* first _poll_incoming is armed at line 144 and runs from the event loop
\* when it comes to it): none, or one fewer than the cap of a drain cycle
QueuedAtStart == { 0, OverflowCap - 1 }

-----------------------------------------------------------------------------
(* MotorFaultDetector on exact reals *)

\* main.py:19  MotorFaultDetector(fs_target=3600, f0_target=60)
fs_target == 3600
f0_target == 60

\* compute_park_vector with the sign of the ic term of i_d slipped
compute_park_vector_sign_slip(ia, ib, ic) ==
    << [i \in 1..Len(ia) |->
          RAdd(RSub(RMul(RSqrt(R(2, 3)), ia[i]), RDiv(ib[i], RSqrt(R(6, 1)))),
               RDiv(ic[i], RSqrt(R(6, 1))))],
       [i \in 1..Len(ia) |->
          RSub(RDiv(ib[i], RSqrt(R(2, 1))), RDiv(ic[i], RSqrt(R(2, 1))))] >>

\* compute_park_vector, lines 37-41, elementwise over arrays of one length:
\*   i_d = (np.sqrt(2/3) * ia) - (ib / np.sqrt(6)) - (ic / np.sqrt(6))
\*   i_q = (ib / np.sqrt(2)) - (ic / np.sqrt(2))
compute_park_vector_exact(ia, ib, ic) ==
    << [i \in 1..Len(ia) |->
          RSub(RSub(RMul(RSqrt(R(2, 3)), ia[i]), RDiv(ib[i], RSqrt(R(6, 1)))),
               RDiv(ic[i], RSqrt(R(6, 1))))],
       [i \in 1..Len(ia) |->
          RSub(RDiv(ib[i], RSqrt(R(2, 1))), RDiv(ic[i], RSqrt(R(2, 1))))] >>

\* diagnose_motor.py, compute_park_vector: the same transform of one sample
diagnose_compute_park_vector(ia, ib, ic) ==
    LET id_val == RSub(RSub(RMul(RSqrt(R(2, 3)), ia), RDiv(ib, RSqrt(R(6, 1)))),
                       RDiv(ic, RSqrt(R(6, 1))))
        iq_val == RSub(RDiv(ib, RSqrt(R(2, 1))), RDiv(ic, RSqrt(R(2, 1))))
    IN  <<id_val, iq_val>>

\* the radius of each point of a trajectory: np.sqrt(i_d**2 + i_q**2)
Radii(i_d, i_q) ==
    [i \in 1..Len(i_d) |-> RSqrt(RAdd(RMul(i_d[i], i_d[i]), RMul(i_q[i], i_q[i])))]

\* scale_trajectory without the test for a zero mean radius
scale_trajectory_unguarded(i_d, i_q) ==
    LET r_mean == RMean(Radii(i_d, i_q))
    IN  << [i \in 1..Len(i_d) |-> RDiv(i_d[i], r_mean)],
           [i \in 1..Len(i_q) |-> RDiv(i_q[i], r_mean)] >>

\* scale_trajectory dividing by the sum of the radii instead of their mean
scale_trajectory_by_sum(i_d, i_q) ==
    LET r_sum == RSum(Radii(i_d, i_q))
    IN  IF r_sum = RZero THEN <<i_d, i_q>>
        ELSE << [i \in 1..Len(i_d) |-> RDiv(i_d[i], r_sum)],
                [i \in 1..Len(i_q) |-> RDiv(i_q[i], r_sum)] >>

\* scale_trajectory, lines 43-55
scale_trajectory(i_d, i_q) ==
    LET r_mean == RMean(Radii(i_d, i_q))
    IN  IF r_mean = RZero THEN <<i_d, i_q>>
        ELSE << [i \in 1..Len(i_d) |-> RDiv(i_d[i], r_mean)],
                [i \in 1..Len(i_q) |-> RDiv(i_q[i], r_mean)] >>

\* acc + s[i] + s[i + step] + ... up to index last, one addition after the
\* other (a NaN stays one)
RECURSIVE F64SumFrom(_, _, _, _, _)
F64SumFrom(s, i, step, last, acc) ==
    IF i > last \/ i > Len(s) THEN acc
    ELSE IF acc.k = "nan" THEN acc
    ELSE F64SumFrom(s, i + step, step, last, F64Add(acc, s[i]))

\* r[1] + r[2], r[3] + r[4], ... added in pairs again until one sum is left
RECURSIVE F64SumHalved(_)
F64SumHalved(r) ==
    IF Len(r) <= 1 THEN r[1]
    ELSE F64SumHalved(Array([j \in 1..(Len(r) \div 2) |->
                                F64Add(r[2 * j - 1], r[2 * j])]))

\* numpy's sum of up to 128 doubles s[lo .. lo + n - 1].  Fewer than 8 are
\* added to a zero one by one.  From 8 on there are eight running sums
\* r[0..7], r[j] over every eighth element from s[lo + j] through the whole
\* blocks of eight, added as ((r0 + r1) + (r2 + r3)) + ((r4 + r5) + (r6 + r7)),
\* and the elements left over are added to that one by one
F64SumLeaf(s, lo, n) ==
    LET whole == lo + (n - (n % 8)) - 1
    IN  F64SumFrom(s, whole + 1, 1, lo + n - 1,
           IF n < 8 THEN F64Zero(0)
           ELSE F64SumHalved(Array([j \in 1..8 |->
                   F64SumFrom(s, lo + j + 7, 8, whole, s[lo + j - 1])])))

\* the parts numpy's pairwise sum splits s[lo .. lo + n - 1] into, as
\* <<lo, n, depth>> from left to right: more than 128 elements are split at
\* n/2 taken down to a multiple of 8, and each part is split so in turn
RECURSIVE F64SumParts(_, _, _)
F64SumParts(lo, n, depth) ==
    IF n <= 128 THEN << <<lo, n, depth>> >>
    ELSE F64SumParts(lo, (n \div 2) - ((n \div 2) % 8), depth + 1)
           \o F64SumParts(lo + (n \div 2) - ((n \div 2) % 8),
                          n - ((n \div 2) - ((n \div 2) % 8)), depth + 1)

\* the sums of the parts joined as the recursion of the pairwise sum joins
\* them: the sum of a left half plus the sum of the right half next to it.
\* done holds <<sum, depth>> of the parts summed and not yet joined
RECURSIVE F64SumJoined(_, _, _, _)
F64SumJoined(s, parts, i, done) ==
    IF Len(done) >= 2 /\ done[Len(done)][2] = done[Len(done) - 1][2]
    THEN F64SumJoined(s, parts, i,
            Append(SubSeq(done, 1, Len(done) - 2),
                   << F64Add(done[Len(done) - 1][1], done[Len(done)][1]),
                      done[Len(done)][2] - 1 >>))
    ELSE IF i > Len(parts) THEN done[1][1]
    ELSE F64SumJoined(s, parts, i + 1,
            Append(done, << F64SumLeaf(s, parts[i][1], parts[i][2]), parts[i][3] >>))

\* np.sum of an array of doubles
F64Sum(s) ==
    IF Held(s) THEN F64SumJoined(s, F64SumParts(1, Len(s), 0), 1, <<>>)
    ELSE F64NaN

\* np.mean: the sum divided by the count
F64Mean(s) == F64Div(F64Sum(s), F64FromInt(Len(s)))

\* np.sqrt(i_d**2 + i_q**2) in doubles
F64Radii(i_d, i_q) ==
    IF Held(i_d) /\ Held(i_q)
    THEN Array([i \in 1..Len(i_d) |->
                  F64Sqrt(F64Add(F64Mul(i_d[i], i_d[i]), F64Mul(i_q[i], i_q[i])))])
    ELSE <<>>

\* scale_trajectory, lines 43-55, as the doubles compute it: the trajectory
\* divided by r_mean = np.mean(r), unless r_mean == 0
scale_trajectory_f64(i_d, i_q) ==
    LET DividedBy(r_mean) ==
          IF ~(Held(i_d) /\ Held(i_q)) \/ F64Eq(r_mean, F64Zero(0)) THEN <<i_d, i_q>>
          ELSE << Array([i \in 1..Len(i_d) |-> F64Div(i_d[i], r_mean)]),
                  Array([i \in 1..Len(i_q) |-> F64Div(i_q[i], r_mean)]) >>
    IN  DividedBy(F64Mean(F64Radii(i_d, i_q)))

\* np.sqrt(2/3), np.sqrt(6) and np.sqrt(2) of lines 39-40, in doubles
SqrtTwoThirds64 == F64Sqrt(F64Div(F64FromInt(2), F64FromInt(3)))
SqrtSix64 == F64Sqrt(F64FromInt(6))
SqrtTwo64 == F64Sqrt(F64FromInt(2))

\* compute_park_vector, lines 37-41, as the doubles compute it
compute_park_vector_f64(ia, ib, ic) ==
    IF ~(Held(ia) /\ Held(ib) /\ Held(ic)) THEN <<>> ELSE
    << Array([i \in 1..Len(ia) |->
          F64Sub(F64Sub(F64Mul(SqrtTwoThirds64, ia[i]), F64Div(ib[i], SqrtSix64)),
                 F64Div(ic[i], SqrtSix64))]),
       Array([i \in 1..Len(ia) |->
          F64Sub(F64Div(ib[i], SqrtTwo64), F64Div(ic[i], SqrtTwo64))]) >>

\* (PVM - healthy) ** 2 averaged, lines 123-127, in doubles
MeanSquareError64(PVM) ==
    LET Square(d) == F64Mul(d, d)
        mse(healthy) ==
            F64Mean(Array([i \in 1..Len(PVM) |-> Square(F64Sub(PVM[i], healthy))]))
    IN  IF Held(PVM) THEN mse(F64FromInt(1)) ELSE F64NaN

\* least_squares_v1, lines 118-129, as the doubles compute it: the Park
\* vector, scaled, its modulus PVM, and the mean square error against 1.0
least_squares_v1_f64(ia, ib, ic) ==
    LET Score(scaled) == MeanSquareError64(F64Radii(scaled[1], scaled[2]))
        Scaled(park)  == Score(scale_trajectory_f64(park[1], park[2]))
    IN  Scaled(compute_park_vector_f64(ia, ib, ic))

\* line 84: the fewest points scipy's interp1d takes for kind='linear'
Interp1dMinEntries == 1

\* np.interp over x_old = np.linspace(0, 1, N) at the point x of [0, 1]
\* (interp1d hands a one-dimensional array of doubles to it): the sample
\* itself at a point of x_old, and between two of them the straight line
\* slope * (x - x_lo) + y_lo; where that is not a number, the line taken
\* from the upper sample, and where that is not one either and the two
\* samples are equal, the sample
InterpAt(values, x) ==
    LET N == Len(values)
        p == RMul(x, R(N - 1, 1))
        j == RTrunc(p)
        Line(y_lo, y_hi) ==
            LET slope == RDiv(RSub(y_hi, y_lo), R(1, N - 1))
                lower == RAdd(RMul(slope, RSub(x, R(j, N - 1))), y_lo)
                upper == RAdd(RMul(slope, RSub(x, R(j + 1, N - 1))), y_hi)
            IN  IF lower /= RNaN THEN lower
                ELSE IF upper = RNaN /\ y_lo = y_hi THEN y_lo
                ELSE upper
    IN  IF j >= N - 1 THEN values[N]
        ELSE IF p = R(j, 1) THEN values[j + 1]
        ELSE Line(values[j + 1], values[j + 2])

\* the j-th of S points of [0, 1) that leave the end point out
Linspace01Open(S, j) == R(j - 1, S)

\* the j-th of the S points of np.linspace(0, 1, S)
Linspace01(S, j) == IF S = 1 THEN RZero ELSE R(j - 1, S - 1)

\* lines 74-78 in the doubles of the code: T = (N * f0_detected) / fs_original
\* and (self.fs_target * T) / self.f0_target
TargetQuotient64(N, fs_original, f0_detected) ==
    LET T == F64Div(F64Mul(F64FromInt(N), F64FromR(f0_detected)),
                    F64FromR(fs_original))
    IN  F64Div(F64Mul(F64FromInt(fs_target), T), F64FromInt(f0_target))

\* line 78: S, or the exception int() raises where the quotient is not a
\* number (a rate or a fundamental that is not finite)
TargetLength64(N, fs_original, f0_detected) ==
    F64Trunc(TargetQuotient64(N, fs_original, f0_detected))

\* main.py, lines 81-82: f0_detected = 60.0 and fs_original = 100.0
MainRate == R(100, 1)
MainFundamental == R(60, 1)

\* the lengths N up to BUFFER_SIZE at which the doubles of lines 75-78, at
\* the rate and the fundamental of main.py, come out one below
\* fs_target * N * 60 / (f0_target * 100)
OneShortLengths == {29, 58}

\* lines 74-78 at the rate and the fundamental of main.py: S for an array of
\* N values, N up to BUFFER_SIZE; what TargetLength64 gives there
WindowTargetLength(N) ==
    (fs_target * N * MainFundamental[1]) \div (f0_target * MainRate[1])
        - (IF N \in OneShortLengths THEN 1 ELSE 0)

\* lines 81-85: the exception raised on an array of N values resampled to S
\* points, or "none".  np.linspace raises on a negative S and interp1d on an
\* empty input and on a point of x_new beyond the single point of a
\* one-sample input
OdtRaises(N, S) ==
    IF S < 0 THEN "ValueError"
    ELSE IF N < Interp1dMinEntries THEN "ValueError"
    ELSE IF N = 1 /\ S > 1 THEN "ValueError"
    ELSE "none"

\* apply_odt, lines 57-85: <<the exception raised or "none", the array>>.
\* No line of it raises by itself; the division of line 75 does on a zero
\* fs_original, the int() of line 78 on a quotient that is not a number, and
\* lines 81-85 as OdtRaises says
apply_odt(values, fs_original, f0_detected) ==
    LET N == Len(values)
    IN  IF fs_original = RZero THEN <<"ZeroDivisionError", <<>>>>
        ELSE
        LET Resampled(S) ==
              IF OdtRaises(N, S) /= "none" THEN <<OdtRaises(N, S), <<>>>>
              ELSE <<"none", [j \in 1..S |-> InterpAt(values, Linspace01(S, j))]>>
            Cut(Q) ==
              IF F64IntRaises(Q) /= "none" THEN <<F64IntRaises(Q), <<>>>>
              ELSE Resampled(F64Trunc(Q))
        IN  Cut(TargetQuotient64(N, fs_original, f0_detected))

\* the double (-1)^s * m * 2^e written out, m in limbs of LimbBits bits from
\* the lowest
F64Lit(s, m, e) == [k |-> "num", s |-> s, m |-> m, e |-> e]

\* line 13: the coefficients signal.ellip(5, 40, 84, 430, btype='lowpass',
\* fs=3600) designs at construction, a fifth-order elliptic low-pass of 40 dB
\* pass-band ripple and 84 dB stop-band attenuation with its edge at 430 Hz,
\* through the bilinear transform.  Each is the double nearest to the designed
\* value; scipy reaches the design in double arithmetic, so its own
\* coefficients can differ from these in their last digits.
\*   b = (0.0001612032530260535, -0.00016201326465057922,
\*        0.0001516413703618377, 0.0001516413703618377,
\*        -0.00016201326465057922, 0.0001612032530260535)
\*   a = (1.0, -4.2005946371168426, 7.744462836944987, -7.737494216360237,
\*        4.189123551025413, -0.9951958717758459)
ellip_b ==
    << F64Lit(0, <<24955, 19596, 1109, 169>>, -65),
       F64Lit(1, <<11683, 12633, 28941, 169>>, -65),
       F64Lit(0, <<28866, 26587, 245, 159>>, -65),
       F64Lit(0, <<28866, 26587, 245, 159>>, -65),
       F64Lit(1, <<11683, 12633, 28941, 169>>, -65),
       F64Lit(0, <<24955, 19596, 1109, 169>>, -65) >>
ellip_a ==
    << F64Lit(0, <<0, 0, 0, 128>>, -52),
       F64Lit(1, <<11751, 23665, 13730, 134>>, -50),
       F64Lit(0, <<4220, 28302, 26961, 247>>, -50),
       F64Lit(1, <<1669, 24098, 19654, 247>>, -50),
       F64Lit(0, <<15083, 13652, 1702, 134>>, -50),
       F64Lit(1, <<1767, 1689, 25236, 254>>, -53) >>

\* line 16: the coefficients of signal.iirnotch(60, Q=1, fs=3600), with
\* gain = 1/(1 + tan(pi/60)) and w0 = pi/30 as the doubles give them:
\*   b = gain * (1, -2*cos(w0), 1)
\*     = (0.9502020221489199, -1.8899934321006198, 0.9502020221489199)
\*   a = (1, -2*gain*cos(w0), 2*gain - 1)
\*     = (1.0, -1.8899934321006198, 0.9004040442978398)
notch_b ==
    << F64Lit(0, <<8239, 9326, 8248, 243>>, -53),
       F64Lit(1, <<28268, 400, 30119, 241>>, -52),
       F64Lit(0, <<8239, 9326, 8248, 243>>, -53) >>
notch_a ==
    << F64Lit(0, <<0, 0, 0, 128>>, -52),
       F64Lit(1, <<28268, 400, 30119, 241>>, -52),
       F64Lit(0, <<16478, 18652, 16496, 230>>, -53) >>

\* c / a0, element by element: lfilter divides both sets of coefficients by
\* a[0] before it filters
LfilterNormalised(c, a0) == Array([i \in 1..Len(c) |-> F64Div(c[i], a0)])

\* the double a is at hand
F64Held(a) == a.k \in {"num", "inf", "nan"}

\* the delay line after the sample x gave the output y: each delay takes the
\* next one plus x*b - y*a, the last takes x*b - y*a alone
LfilterDelays(b, a, Z, x, y) ==
    IF Held(b) /\ Held(a) /\ Held(Z) /\ F64Held(x) /\ F64Held(y)
    THEN Array([i \in 1..Len(Z) |->
             IF i < Len(Z)
             THEN F64Sub(F64Add(Z[i + 1], F64Mul(x, b[i + 1])), F64Mul(y, a[i + 1]))
             ELSE F64Sub(F64Mul(x, b[i + 1]), F64Mul(y, a[i + 1]))])
    ELSE <<>>

\* the direct-form II transposed recursion of lfilter over x from sample n
\* on: the output is Z[1] + b[0]*x, and y holds the outputs made so far
RECURSIVE LfilterFrom(_, _, _, _, _, _)
LfilterFrom(b, a, x, n, Z, y) ==
    IF n > Len(x) \/ ~(Held(b) /\ Held(a) /\ Held(Z) /\ Held(y)) THEN y
    ELSE LET Stepped(yn) ==
                 IF F64Held(yn)
                 THEN LfilterFrom(b, a, x, n + 1, LfilterDelays(b, a, Z, x[n], yn),
                                  Append(y, yn))
                 ELSE y
         IN  Stepped(F64Add(Z[1], F64Mul(b[1], x[n])))

\* scipy.signal.lfilter(b, a, x) with no zi, for b and a of one length of two
\* or more: the recursion from a delay line of zeros
lfilter(b, a, x) ==
    IF Held(b) /\ Held(a) /\ Held(x)
    THEN LfilterFrom(LfilterNormalised(b, a[1]), LfilterNormalised(a, a[1]), x, 1,
                     [i \in 1..(Len(b) - 1) |-> F64Zero(0)], <<>>)
    ELSE <<>>

\* apply_filters, lines 87-92: the elliptic low-pass, then the notch, each a
\* call of lfilter on the whole array
apply_filters(data) ==
    lfilter(notch_b, notch_a, lfilter(ellip_b, ellip_a, data))

\* least_squares_v1 scoring the trajectory as it is, without scaling it
least_squares_unscaled(ia, ib, ic) ==
    LET park == compute_park_vector_exact(ia, ib, ic)
        PVM  == Radii(park[1], park[2])
    IN  RMean([i \in 1..Len(PVM) |->
                  RMul(RSub(PVM[i], R(1, 1)), RSub(PVM[i], R(1, 1)))])

\* least_squares_v1, lines 118-129.  Where the Park vector is 0 in real
\* numbers at every sample of currents that are not all 0 (ia = ib = ic), the
\* code scales what the rounding of line 39 leaves of it, and the score is
\* the mark of a value the formulas do not give
least_squares_v1(ia, ib, ic) ==
    LET park    == compute_park_vector_exact(ia, ib, ic)
        scaled  == scale_trajectory(park[1], park[2])
        PVM     == Radii(scaled[1], scaled[2])
        healthy == R(1, 1)
        AtOrigin == \A i \in 1..Len(ia) : park[1][i] = RZero /\ park[2][i] = RZero
        NoCurrent == \A i \in 1..Len(ia) :
                        ia[i] = RZero /\ ib[i] = RZero /\ ic[i] = RZero
    IN  IF AtOrigin /\ ~NoCurrent THEN RInexact
        ELSE RMean([i \in 1..Len(PVM) |->
                      RMul(RSub(PVM[i], healthy), RSub(PVM[i], healthy))])

-----------------------------------------------------------------------------
(* MotorFaultDetector *)

\* compute_park_vector, elementwise over arrays of one length:
\*   i_d = sqrt(2/3)*ia - ib/sqrt(6) - ic/sqrt(6)   (in units of sqrt(6))
\*   i_q = ib/sqrt(2) - ic/sqrt(2)                  (in units of sqrt(2))
compute_park_vector(ia, ib, ic) ==
    << [i \in 1..Len(ia) |->
          FSub(FSub(FScale(1, 3, ia[i]), FScale(1, 6, ib[i])), FScale(1, 6, ic[i]))],
       [i \in 1..Len(ia) |->
          FSub(FScale(1, 2, ib[i]), FScale(1, 2, ic[i]))] >>

AnyNaN(a) == \E i \in 1..Len(a) : IsNaN(a[i])
AllZero(a) == \A i \in 1..Len(a) : a[i] = <<0, 1>>
AllEqual(a) == \A i \in 1..Len(a) : a[i] = a[1]

\* n is a power of two, 1 or more
RECURSIVE IsPowerOfTwo(_)
IsPowerOfTwo(n) == n = 1 \/ (n > 1 /\ n % 2 = 0 /\ IsPowerOfTwo(n \div 2))

\* line 39 in the doubles of the code, for one sample whose i_d is 0 in real
\* numbers (2 ia = ib + ic): what the rounding of
\* sqrt(2/3)*ia - ib/sqrt(6) - ic/sqrt(6) leaves.
\*   ia = 0 and ib = -ic: 0.0 - q - (-q), and that is 0.0 ("zero").
\*   ia = ib = ic = 2^k or -2^k: 2^k times what the three constants leave at
\*   ia = ib = ic = 1, which is -2^-53 ("negative" for 2^k, "positive" for
\*   -2^k).
\*   Any other sample: the roundings of that sample decide ("rounding");
\*   they are not computed here
ParkIdRounding(ia, ib, ic) ==
    IF ia = <<0, 1>> /\ ib = FSub(<<0, 1>>, ic) THEN "zero"
    ELSE IF ia = ib /\ ib = ic /\ IsPowerOfTwo(ia[2])
              /\ IsPowerOfTwo(IF ia[1] < 0 THEN -ia[1] ELSE ia[1])
         THEN IF ia[1] > 0 THEN "negative" ELSE "positive"
    ELSE "rounding"

\* lines 106-114 for one channel of the trajectory (i_d, i_q) of the window
\* (ia, ib, ic): the last of the S points of
\* apply_filters(apply_odt(scaled channel)).
\*   A sample that is not a number makes r_mean not a number (lines 45-46),
\*   so every element of both scaled channels (lines 52-53), and the
\*   interpolation and the two lfilter calls hand that on: not a number.
\*   An i_d that is 0 in real numbers at every sample, of currents that are
\*   not all 0, is in the code what the rounding of line 39 leaves of
\*   sqrt(2/3)*ia - ib/sqrt(6) - ic/sqrt(6), and the scaling of lines 52-53
\*   divides by the mean radius of just that: the doubles decide.  Where
\*   they are 0.0 all along (ParkIdRounding) the channel is 0; where the
\*   three currents are one power of two all along, i_q is 0.0 and i_d one
\*   value, so the scaled channel is its sign all along (a step); otherwise
\*   it is the rounding of the window, as a window below.
\*   A channel that is 0 all along (i_q where ib = ic, i_d of no current)
\*   stays 0 through the scaling (returned as it is at line 49, or
\*   0 / r_mean), the interpolation and the filters, which start at rest: 0.
\*   A trajectory that stays at one point of an axis has every radius equal
\*   to r_mean, so the scaled channel is 1 or -1 all along, and so is the
\*   resampled one: the last point is that sign times the S-th point of the
\*   step response of the elliptic filter followed by the notch.
\*   Any other window: the S-th point of the response of the two filters to
\*   the scaled and resampled channel.  scipy's coefficients are not
\*   rational and the response is not computed; the value is kept as the
\*   term that determines it.
FilteredLast(channel, ia, ib, ic, i_d, i_q, S) ==
    LET own   == IF channel = "id" THEN i_d ELSE i_q
        other == IF channel = "id" THEN i_q ELSE i_d
        Step(gain) == [response |-> "step", gain |-> gain, points |-> S]
        Window == [response |-> "window", channel |-> channel,
                   ia |-> ia, ib |-> ib, ic |-> ic, points |-> S]
        Left(i) == ParkIdRounding(ia[i], ib[i], ic[i])
        Rounded ==
            IF \A i \in 1..Len(ia) : Left(i) = "zero" THEN <<0, 1>>
            ELSE IF AllEqual(ia) /\ AllEqual(ib) /\ AllEqual(ic)
                      /\ Left(1) \in {"negative", "positive"}
                 THEN Step(IF Left(1) = "positive" THEN 1 ELSE -1)
            ELSE Window
    IN  IF AnyNaN(i_d) \/ AnyNaN(i_q) THEN NaN
        ELSE IF channel = "id" /\ AllZero(i_d)
                  /\ ~(AllZero(ia) /\ AllZero(ib) /\ AllZero(ic))
             THEN Rounded
        ELSE IF AllZero(own) THEN <<0, 1>>
        ELSE IF AllEqual(own) /\ AllZero(other)
             THEN Step(IF own[1][1] > 0 THEN 1 ELSE -1)
        ELSE Window

\* process_pipeline, lines 101-116, as callback_handler calls it, with
\* fs_original = 100.0 and f0_detected = 60.0 (main.py, lines 81-88): the
\* exception that leaves it or "none", and the two arrays it returns, each
\* by its length and its last element.  Lines 103, 106 and 113-114 raise
\* nothing, whatever the numbers; lines 109-110 raise where apply_odt does,
\* by the length of the arrays alone
process_pipeline(ia, ib, ic) ==
    LET Arrays(i_d, i_q, S) ==
            [exc |-> "none",
             id_final |-> [points |-> S,
                           last |-> FilteredLast("id", ia, ib, ic, i_d, i_q, S)],
             iq_final |-> [points |-> S,
                           last |-> FilteredLast("iq", ia, ib, ic, i_d, i_q, S)]]
        Scaled(park, S) ==
            IF OdtRaises(Len(ia), S) /= "none" THEN [exc |-> OdtRaises(Len(ia), S)]
            ELSE Arrays(park[1], park[2], S)
    IN  Scaled(compute_park_vector(ia, ib, ic), WindowTargetLength(Len(ia)))

-----------------------------------------------------------------------------
(* main.py: callback_handler *)

Channels == {"ia", "ib", "ic"}

\* hasattr(callback_handler, name)
HasAttr(attrs, name) == name \in DOMAIN attrs

\* callback_handler.name = v
SetAttr(attrs, name, v) == (name :> v) @@ attrs

\* an unpack that takes a short payload as if it were whole
UnpackAcceptsShort(data) == [exc |-> "none", vals |-> data.vals]

\* struct.unpack("<7f", data[:28]): struct.error on fewer than 28 bytes
Unpack(data) ==
    IF data.len < PayloadBytes
    THEN [exc |-> "struct.error", vals |-> <<>>]
    ELSE [exc |-> "none", vals |-> data.vals]

\* the single-sample arrays taken from the buffers instead of the sample
RawParkInputsFromBuffers(bufs, ia, ib, ic) == <<bufs["ia"], bufs["ib"], bufs["ic"]>>

\* the single-sample arrays with each buffer's mean taken off first
RawParkInputsDcRemoved(bufs, ia, ib, ic) ==
    << <<FSub(ia, FMean(bufs["ia"]))>>,
       <<FSub(ib, FMean(bufs["ib"]))>>,
       <<FSub(ic, FMean(bufs["ic"]))>> >>

\* lines 63-67: np.array([ia]), np.array([ib]), np.array([ic])
RawParkInputs(bufs, ia, ib, ic) == <<<<ia>>, <<ib>>, <<ic>>>>

\* the test of line 72 with the boundary excluded
EnoughSamplesStrict(n) == n > MinFilterSamples

\* line 72: len(current_buffers['ia']) >= 10
EnoughSamples(n) == n >= MinFilterSamples

\* line 101: error_count % 100 == 1
ReportDue(count) == count % ReportEvery = 1

\* the EMA with the weights of the sample and of the state exchanged
EmaUpdateWeightsSwapped(attrs, id_val, iq_val) ==
    IF ~HasAttr(attrs, "filtered_id")
    THEN SetAttr(SetAttr(attrs, "filtered_id", id_val), "filtered_iq", iq_val)
    ELSE SetAttr(SetAttr(attrs, "filtered_id",
                    FAdd(FScale(AlphaDen - AlphaNum, AlphaDen, id_val),
                         FScale(AlphaNum, AlphaDen, attrs["filtered_id"]))),
                 "filtered_iq",
                    FAdd(FScale(AlphaDen - AlphaNum, AlphaDen, iq_val),
                         FScale(AlphaNum, AlphaDen, attrs["filtered_iq"])))

\* lines 105-111 and 117-123: the EMA fallback state
EmaUpdate(attrs, id_val, iq_val) ==
    IF ~HasAttr(attrs, "filtered_id")
    THEN SetAttr(SetAttr(attrs, "filtered_id", id_val), "filtered_iq", iq_val)
    ELSE SetAttr(SetAttr(attrs, "filtered_id",
                    FAdd(FScale(AlphaNum, AlphaDen, id_val),
                         FScale(AlphaDen - AlphaNum, AlphaDen, attrs["filtered_id"]))),
                 "filtered_iq",
                    FAdd(FScale(AlphaNum, AlphaDen, iq_val),
                         FScale(AlphaDen - AlphaNum, AlphaDen, attrs["filtered_iq"])))

\* lines 96-98: error_count, created at 0 on the first failure, plus one
CountError(attrs) ==
    SetAttr(attrs, "error_count",
            (IF HasAttr(attrs, "error_count") THEN attrs["error_count"] ELSE 0) + 1)

\* the filter stage with the EMA update moved in front of the branch
FilterStageEmaFirst(attrs, bufs, id_val, iq_val) ==
    LET ema == EmaUpdate(attrs, id_val, iq_val)
    IN  IF EnoughSamples(Len(bufs["ia"]))
        THEN LET args == <<bufs["ia"], bufs["ib"], bufs["ic"]>>
                 Used(out) ==
                   IF out.exc /= "none"
                   THEN LET a1 == CountError(ema)
                        IN  [attrs |-> a1, fallback |-> TRUE, pipeline |-> "raised",
                             reported |-> ReportDue(a1["error_count"]),
                             filtered |-> <<a1["filtered_id"], a1["filtered_iq"]>>,
                             pipeline_in |-> args]
                   ELSE [attrs |-> ema, fallback |-> FALSE, pipeline |-> "returned",
                         reported |-> FALSE,
                         filtered |-> <<out.id_final.last, out.iq_final.last>>,
                         pipeline_in |-> args]
             IN  Used(process_pipeline(args[1], args[2], args[3]))
        ELSE [attrs |-> ema, fallback |-> TRUE, pipeline |-> "not_called",
              reported |-> FALSE,
              filtered |-> <<ema["filtered_id"], ema["filtered_iq"]>>,
              pipeline_in |-> <<>>]

\* lines 71-126: the filtered Park vector of this callback.  With ten samples
\* or more the chain runs on the three buffers and the last element of each
\* array it returns is used (lines 91-92); if it raises, the failure is
\* counted, reported when due, and the EMA is used; with fewer samples the
\* EMA is used.
FilterStage(attrs, bufs, id_val, iq_val) ==
    IF EnoughSamples(Len(bufs["ia"]))
    THEN LET args == <<bufs["ia"], bufs["ib"], bufs["ic"]>>
             Used(out) ==
               IF out.exc /= "none"
               THEN LET a1 == CountError(attrs)
                        a2 == EmaUpdate(a1, id_val, iq_val)
                    IN  [attrs |-> a2, fallback |-> TRUE, pipeline |-> "raised",
                         reported |-> ReportDue(a1["error_count"]),
                         filtered |-> <<a2["filtered_id"], a2["filtered_iq"]>>,
                         pipeline_in |-> args]
               ELSE [attrs |-> attrs, fallback |-> FALSE, pipeline |-> "returned",
                     reported |-> FALSE,
                     filtered |-> <<out.id_final.last, out.iq_final.last>>,
                     pipeline_in |-> args]
         IN  Used(process_pipeline(args[1], args[2], args[3]))
    ELSE LET a2 == EmaUpdate(attrs, id_val, iq_val)
         IN  [attrs |-> a2, fallback |-> TRUE, pipeline |-> "not_called",
              reported |-> FALSE,
              filtered |-> <<a2["filtered_id"], a2["filtered_iq"]>>,
              pipeline_in |-> <<>>]

\* an except clause that lets the exception through
OuterExceptPropagates(exc) == exc

\* lines 143-146: except Exception: print, and the callback returns normally.
\* The exception that leaves the handler: none
OuterExcept(exc) == "none"

NoTrace == [entered |-> FALSE, reached |-> FALSE, done |-> FALSE]

\* The state callback_handler works on, as one record
CbState ==
    [gui_app |-> gui_app, start_time |-> start_time,
     current_buffers |-> current_buffers, cb_attrs |-> cb_attrs,
     cb_pc |-> cb_pc, pending |-> pending, clock |-> clock,
     accepted |-> accepted, trace |-> trace, incoming |-> incoming]

\* lines 34-126 of one callback on payload data.  The callback returns at line 38 without a GUI; a payload that does
\* not unpack leaves through the outer except; otherwise the sample is
\* buffered, its Park vector and filtered vector computed, and the callback
\* stands before line 129.
CallbackBody(S, data) ==
    LET now == S.clock + 1
        t0  == [entered |-> FALSE, reached |-> FALSE, done |-> TRUE,
                data |-> data, gui_at_entry |-> S.gui_app,
                pre_attrs |-> S.cb_attrs, pre_buffers |-> S.current_buffers,
                queue_before |-> Len(S.incoming),
                propagated |-> FALSE, sent |-> 0,
                gui_at_test |-> "unread", gui_at_load |-> "unread",
                gui_at_call |-> "unread", send_exc |-> "none"]
    IN  IF S.gui_app = "None"
        THEN [S EXCEPT !.clock = now, !.trace = t0]
        ELSE
        LET st == IF S.start_time = <<>> THEN <<now>> ELSE S.start_time
            u  == Unpack(data)
        IN  IF u.exc /= "none"
            THEN [S EXCEPT !.clock = now, !.start_time = st,
                           !.trace = [t0 EXCEPT !.entered = TRUE,
                                                !.propagated = OuterExcept(u.exc) /= "none"]]
            ELSE
            \* the callback after lines 58-60 (Buffered), with the arrays of
            \* lines 64-66 (Inputs), after lines 63-67 (Raw) and 68-69
            \* (Parked), and after lines 71-126 (Filtered)
            LET v    == u.vals
                Filtered(bufs, inp, id_val, iq_val, fs) ==
                [S EXCEPT
                   !.clock = now,
                   !.start_time = st,
                   !.current_buffers = bufs,
                   !.accepted = Append(@, <<v.ia, v.ib, v.ic>>),
                   !.cb_attrs = fs.attrs,
                   !.cb_pc = "send",
                   !.pending = [ax |-> v.ax, ay |-> v.ay, az |-> v.az, temp |-> v.temp,
                                ia |-> v.ia, ib |-> v.ib, ic |-> v.ic,
                                id_val |-> id_val, iq_val |-> iq_val,
                                filtered_id |-> fs.filtered[1],
                                filtered_iq |-> fs.filtered[2]],
                   !.trace = [entered |-> TRUE, reached |-> TRUE, done |-> FALSE,
                              data |-> data, gui_at_entry |-> S.gui_app,
                              pre_attrs |-> S.cb_attrs,
                              pre_buffers |-> S.current_buffers,
                              queue_before |-> Len(S.incoming),
                              propagated |-> FALSE, sent |-> 0,
                              n_after |-> Len(bufs["ia"]),
                              fallback |-> fs.fallback,
                              pipeline |-> fs.pipeline, reported |-> fs.reported,
                              raw |-> <<id_val, iq_val>>,
                              park_in |-> inp,
                              pipeline_in |-> fs.pipeline_in,
                              filtered |-> fs.filtered,
                              gui_at_test |-> "unread",
                              gui_at_load |-> "unread",
                              gui_at_call |-> "unread",
                              send_exc |-> "none"]]
                Parked(bufs, inp, id_val, iq_val) ==
                    Filtered(bufs, inp, id_val, iq_val,
                             FilterStage(S.cb_attrs, bufs, id_val, iq_val))
                Raw(bufs, inp, park) == Parked(bufs, inp, park[1][1], park[2][1])
                Inputs(bufs, inp) ==
                    Raw(bufs, inp, compute_park_vector(inp[1], inp[2], inp[3]))
                Buffered(bufs) == Inputs(bufs, RawParkInputs(bufs, v.ia, v.ib, v.ic))
            IN  Buffered([ia |-> DequeAppend(S.current_buffers.ia, v.ia, BUFFER_SIZE),
                          ib |-> DequeAppend(S.current_buffers.ib, v.ib, BUFFER_SIZE),
                          ic |-> DequeAppend(S.current_buffers.ic, v.ic, BUFFER_SIZE)])

\* lines 129-130: the global gui_app is read and tested.  Without a GUI the
\* callback is over; with one the timestamp is taken and the callback stands
\* before line 132
CallbackTest(S) ==
    IF S.gui_app = "None"
    THEN [S EXCEPT !.cb_pc = "idle", !.pending = <<>>,
                   !.trace = [@ EXCEPT !.done = TRUE, !.gui_at_test = S.gui_app]]
    ELSE [S EXCEPT !.cb_pc = "load",
                   !.pending = [timestamp |-> <<S.clock - S.start_time[1], 1>>,
                                ax |-> @.ax, ay |-> @.ay, az |-> @.az,
                                temp |-> @.temp,
                                ia |-> @.ia, ib |-> @.ib, ic |-> @.ic,
                                id_val |-> @.id_val, iq_val |-> @.iq_val,
                                filtered_id |-> @.filtered_id,
                                filtered_iq |-> @.filtered_iq],
                   !.trace = [@ EXCEPT !.gui_at_test = S.gui_app]]

\* line 132, gui_app.add_data_point: the global is read a second time and the
\* method looked up on it.  On None the lookup raises AttributeError, which the
\* except of lines 138-141 takes: the message is printed, gui_app is set to
\* None and the callback is over.  Otherwise the callback holds the bound
\* method and stands before the call
CallbackLoad(S) ==
    IF S.gui_app = "None"
    THEN [S EXCEPT !.gui_app = "None", !.cb_pc = "idle", !.pending = <<>>,
                   !.trace = [@ EXCEPT !.done = TRUE, !.gui_at_load = S.gui_app,
                                       !.send_exc = "AttributeError"]]
    ELSE [S EXCEPT !.cb_pc = "call",
                   !.trace = [@ EXCEPT !.gui_at_load = S.gui_app]]

\* lines 132-137, the call of the bound method: add_data_point queues the
\* record on the MotorApp the method was looked up on, whatever gui_app is by
\* now, and raises nothing
CallbackCall(S) ==
    [S EXCEPT !.incoming = add_data_point(@, S.pending),
              !.cb_pc = "idle",
              !.pending = <<>>,
              !.trace = [@ EXCEPT !.done = TRUE, !.sent = 1,
                                  !.gui_at_call = S.gui_app]]

\* lines 128-141 with no step of another thread in between
CallbackSent(S) ==
    IF S.cb_pc = "call" THEN CallbackCall(S) ELSE S

CallbackLoaded(S) ==
    IF S.cb_pc = "load" THEN CallbackSent(CallbackLoad(S)) ELSE S

CallbackSend(S) == CallbackLoaded(CallbackTest(S))

-----------------------------------------------------------------------------
(* The BLE thread of SpecCb: notifications, and the window being closed *)

Sample(ax, ay, az, temp, ia, ib, ic) ==
    [ax |-> ax, ay |-> ay, az |-> az, temp |-> temp, ia |-> ia, ib |-> ib, ic |-> ic]

\* the k-th notification of the nominal stream: 28 bytes, the snapshot
\* (1.0, -0.5, -0.5) shifted by k on all three phases.  Every sample differs
\* from every other, and all have the Park vector (sqrt(6)/2, 0).
NominalPayload(k) ==
    [len |-> PayloadBytes,
     vals |-> Sample(<<0, 1>>, <<1, 10>>, <<0, 1>>, <<25, 1>>,
                     <<1 + k, 1>>, Rat(2 * k - 1, 2), Rat(2 * k - 1, 2))]

\* the payloads the k-th notification may carry instead: one byte short, all
\* currents equal, unbalanced, not a number, and longer than 28 bytes
Payloads(k) ==
    { NominalPayload(k),
      [len |-> PayloadBytes - 1, vals |-> NominalPayload(k).vals],
      [len |-> PayloadBytes,
       vals |-> Sample(<<0, 1>>, <<0, 1>>, <<0, 1>>, <<31, 1>>,
                       <<0, 1>>, <<0, 1>>, <<0, 1>>)],
      [len |-> PayloadBytes,
       vals |-> Sample(<<1, 5>>, <<-1, 10>>, <<1, 5>>, <<25, 1>>,
                       <<0, 1>>, <<1, 1>>, <<-1, 1>>)],
      [len |-> PayloadBytes,
       vals |-> Sample(<<0, 1>>, <<1, 10>>, <<0, 1>>, NaN,
                       NaN, <<1, 2>>, <<-1, 2>>)],
      [len |-> PayloadBytes + 4,
       vals |-> Sample(<<0, 1>>, <<1, 10>>, <<0, 1>>, <<25, 1>>,
                       <<2, 1>>, <<-1, 1>>, <<-1, 1>>)] }

CbSet(S) ==
    /\ gui_app' = S.gui_app
    /\ start_time' = S.start_time
    /\ current_buffers' = S.current_buffers
    /\ cb_attrs' = S.cb_attrs
    /\ cb_pc' = S.cb_pc
    /\ pending' = S.pending
    /\ clock' = S.clock
    /\ accepted' = S.accepted
    /\ trace' = S.trace
    /\ incoming' = S.incoming

tkVars == <<data_buffers, motor_state, poll_pc, drained_any, latest, processed,
            process_calls, cycle, produced, singles>>

\* a notification arrives: callback_handler runs up to line 126
Callback ==
    /\ cb_pc = "idle"
    /\ cb_budget > 0
    /\ \E data \in Payloads(clock + 1) : CbSet(CallbackBody(CbState, data))
    /\ cb_budget' = cb_budget - 1
    /\ UNCHANGED <<tkVars, dspVars, monVars>>

\* the callback goes on from line 128: the test of line 129
Send ==
    /\ cb_pc = "send"
    /\ CbSet(CallbackTest(CbState))
    /\ UNCHANGED <<cb_budget, tkVars, dspVars, monVars>>

\* the callback goes on from line 131: gui_app.add_data_point is looked up
SendLoad ==
    /\ cb_pc = "load"
    /\ CbSet(CallbackLoad(CbState))
    /\ UNCHANGED <<cb_budget, tkVars, dspVars, monVars>>

\* the callback calls the method it holds
SendCall ==
    /\ cb_pc = "call"
    /\ CbSet(CallbackCall(CbState))
    /\ UNCHANGED <<cb_budget, tkVars, dspVars, monVars>>

\* MotorApp._on_closing, lines 238-240: main.gui_app = None, self.destroy().
\* It is a handler of the Tk thread, so it runs between two drain cycles; the
\* queue is left as it is
OnClosing ==
    /\ gui_app = "MotorApp"
    /\ poll_pc = "idle"
    /\ gui_app' = "None"
    /\ UNCHANGED <<start_time, current_buffers, cb_attrs, cb_pc, pending, clock,
                   accepted, trace, cb_budget, incoming, tkVars, dspVars, monVars>>

-----------------------------------------------------------------------------
(* Initial states *)

\* MotorApp.__init__: empty deques, an empty queue, status Off, and the first
\* _poll_incoming not yet run
AppInit ==
    /\ data_buffers = [k \in BufferKeys |-> <<>>]
    /\ motor_state = [status |-> "Off", status_detail |-> ""]
    /\ poll_pc = "idle"
    /\ drained_any = FALSE
    /\ latest = <<>>
    /\ processed = 0
    /\ process_calls = <<>>
    /\ cycle = NoCycle

GuiInit ==
    /\ incoming = <<>>
    /\ AppInit
    /\ produced = 0
    /\ singles = 0

\* main.py once imported and the GUI registered (motor_gui.py:164)
CbStart ==
    [gui_app |-> "MotorApp", start_time |-> <<>>,
     current_buffers |-> [ia |-> <<>>, ib |-> <<>>, ic |-> <<>>], cb_attrs |-> <<>>,
     cb_pc |-> "idle", pending |-> <<>>, clock |-> 0,
     accepted |-> <<>>, trace |-> NoTrace, incoming |-> <<>>]

\* one whole callback of the nominal stream
WarmStep(S) == CallbackSend(CallbackBody(S, NominalPayload(S.clock + 1)))

\* the state n callbacks of the nominal stream after S
RECURSIVE WarmRun(_, _)
WarmRun(S, n) ==
    IF n = 0 THEN S
    ELSE IF n = 1 THEN WarmStep(S)
    ELSE LET Rest(T) == IF T.cb_pc = "idle" THEN WarmRun(T, n - (n \div 2)) ELSE T
         IN  Rest(WarmRun(S, n \div 2))

\* the callbacks of the nominal stream SpecCb starts after: none, two and one
\* fewer than the ten samples that enable the chain, and one fewer than a
\* full buffer
WarmUps == { 0, MinFilterSamples - 2, MinFilterSamples - 1, BUFFER_SIZE - 1 }

\* MotorApp.__init__, and then the add_data_point calls that come before the
\* first step of the Tk thread
InitGui ==
    /\ \E k \in QueuedAtStart :
          /\ incoming = AddMany(<<>>, 0, k)
          /\ produced = k
    /\ singles = 0
    /\ AppInit
    /\ gui_app = CbStart.gui_app
    /\ start_time = CbStart.start_time
    /\ current_buffers = CbStart.current_buffers
    /\ cb_attrs = CbStart.cb_attrs
    /\ cb_pc = CbStart.cb_pc
    /\ pending = CbStart.pending
    /\ clock = CbStart.clock
    /\ accepted = CbStart.accepted
    /\ trace = CbStart.trace
    /\ cb_budget = 0
    /\ dsp_in = [kind |-> "none"] /\ dsp_out = <<>>
    /\ monitor = MonitorInit /\ points = <<>>

InitCb ==
    /\ \E w \in WarmUps :
          LET StartsAt(S) ==
                /\ gui_app = S.gui_app
                /\ start_time = S.start_time
                /\ current_buffers = S.current_buffers
                /\ cb_attrs = S.cb_attrs
                /\ cb_pc = S.cb_pc
                /\ pending = S.pending
                /\ clock = S.clock
                /\ accepted = S.accepted
                /\ trace = NoTrace
                /\ incoming = S.incoming
          IN  StartsAt(WarmRun(CbStart, w))
    /\ cb_budget = MaxCallbacks
    /\ data_buffers = [k \in BufferKeys |-> <<>>]
    /\ motor_state = [status |-> "Off", status_detail |-> ""]
    /\ poll_pc = "idle"
    /\ drained_any = FALSE
    /\ latest = <<>>
    /\ processed = 0
    /\ process_calls = <<>>
    /\ cycle = NoCycle
    /\ produced = 0
    /\ singles = 0
    /\ dsp_in = [kind |-> "none"] /\ dsp_out = <<>>
    /\ monitor = MonitorInit /\ points = <<>>

NextGui ==
    \/ PollBegin
    \/ PollDrainGet
    \/ PollDrainEmpty
    \/ PollOverflowGet
    \/ PollOverflowEmpty
    \/ ProducerAdd

SpecGui == InitGui /\ [][NextGui]_vars

NextCb ==
    \/ Callback
    \/ Send
    \/ SendLoad
    \/ SendCall
    \/ OnClosing

SpecCb == InitCb /\ [][NextCb]_vars

\* the runs of SpecStop, each the callbacks of the nominal stream that come
\* before the first step of the Tk thread and the callbacks that follow:
\* every callback after the start, or every callback before the first drain
\* cycle, two more of them than the cycle processes before it looks at its
\* count
StopRuns == { <<0, MaxCallbacks>>, <<OverflowCap + 2, 0>> }

\* the program from its start: the BLE thread's callbacks, the Tk thread's
\* drain cycles, and the window being closed
InitStop ==
    /\ \E run \in StopRuns :
          LET StartsAt(S) ==
                /\ gui_app = S.gui_app
                /\ start_time = S.start_time
                /\ current_buffers = S.current_buffers
                /\ cb_attrs = S.cb_attrs
                /\ cb_pc = S.cb_pc
                /\ pending = S.pending
                /\ clock = S.clock
                /\ accepted = S.accepted
                /\ trace = NoTrace
                /\ incoming = S.incoming
          IN  /\ StartsAt(WarmRun(CbStart, run[1]))
              /\ cb_budget = run[2]
    /\ AppInit
    /\ produced = 0
    /\ singles = 0
    /\ dsp_in = [kind |-> "none"] /\ dsp_out = <<>>
    /\ monitor = MonitorInit /\ points = <<>>

NextStop ==
    \/ Callback
    \/ Send
    \/ SendLoad
    \/ SendCall
    \/ OnClosing
    \/ PollBegin
    \/ PollDrainGet
    \/ PollDrainEmpty
    \/ PollOverflowGet
    \/ PollOverflowEmpty

SpecStop == InitStop /\ [][NextStop]_vars

-----------------------------------------------------------------------------
(* Calls of the MotorFaultDetector methods (SpecDsp) *)

\* the longest trajectory or array of currents a caller holds
MaxTraj == 3
\* the longest trajectory followed in doubles
MaxDoubles == 2
\* the longest array a caller hands to apply_odt
MaxOdtLen == 2
\* the length of a window of the callback
LongWindowLen == 29

\* all sequences over S of length 1 to n
RECURSIVE SeqsUpTo(_, _)
SeqsUpTo(S, n) ==
    IF n = 0 THEN {}
    ELSE LET shorter == SeqsUpTo(S, n - 1)
         IN  {<<x>> : x \in S} \cup shorter
                \cup {Append(q, x) : q \in shorter, x \in S}

\* column c of a sequence of tuples
Column(q, c) == [i \in 1..Len(q) |-> q[i][c]]

\* points (id, iq) of a Park trajectory, at radius 0, 1, 2, 5 and 10
TrajPoints ==
    { <<R(0, 1), R(0, 1)>>, <<R(1, 1), R(0, 1)>>, <<R(0, 1), R(1, 1)>>,
      <<R(0, 1), R(-2, 1)>>, <<R(3, 1), R(4, 1)>>, <<R(-4, 1), R(3, 1)>>,
      <<R(6, 1), R(8, 1)>> }

\* points (id, iq) of the trajectories followed in doubles, at radius 0, 1,
\* 2 and 5
DoublePoints ==
    { <<R(0, 1), R(0, 1)>>, <<R(1, 1), R(0, 1)>>, <<R(0, 1), R(-2, 1)>>,
      <<R(3, 1), R(4, 1)>> }

\* the points a longer trajectory goes round: radius 1, 2, 5 and 1/2, the
\* last with coordinates 0.3 and 0.4 that no double holds exactly
RoundPoints ==
    << <<R(1, 1), R(0, 1)>>, <<R(0, 1), R(-2, 1)>>, <<R(3, 1), R(4, 1)>>,
       <<R(3, 10), R(2, 5)>> >>

\* the trajectory of n points that goes round RoundPoints
RoundTrajectory(n) ==
    [i \in 1..n |-> RoundPoints[((i - 1) % Len(RoundPoints)) + 1]]

\* the lengths of the longer trajectories followed in doubles: one that
\* np.sum adds up one by one, one it adds in eight running sums with elements
\* left over, and one it splits in two
RoundLengths == {7, 20, 132}

\* samples (ia, ib, ic) in multiples of 1/sqrt(6) A: the three phases of a
\* balanced set whose Park vector has modulus 1, the same at modulus 2, and
\* no current
UnitCurrents ==
    LET U == RDiv(R(1, 1), RSqrt(R(6, 1)))
        c(x, y, z) == <<RMul(R(x, 1), U), RMul(R(y, 1), U), RMul(R(z, 1), U)>>
    IN  { c(2, -1, -1), c(-1, 2, -1), c(-1, -1, 2),
          c(4, -2, -2), c(-2, 4, -2), c(0, 0, 0) }

\* samples (ia, ib, ic) in A: the snapshot (1.0, -0.5, -0.5), its next phase,
\* its double, and no current
PlainCurrents ==
    { <<R(1, 1), R(-1, 2), R(-1, 2)>>, <<R(-1, 2), R(1, 1), R(-1, 2)>>,
      <<R(2, 1), R(-1, 1), R(-1, 1)>>, <<R(0, 1), R(0, 1), R(0, 1)>> }

\* the samples a longer window of currents goes round: the snapshot, its
\* double and its next phase
RoundCurrents ==
    << <<R(1, 1), R(-1, 2), R(-1, 2)>>, <<R(2, 1), R(-1, 1), R(-1, 1)>>,
       <<R(-1, 2), R(1, 1), R(-1, 2)>> >>

\* the window of n samples that goes round RoundCurrents
RoundWindow(n) ==
    [i \in 1..n |-> RoundCurrents[((i - 1) % Len(RoundCurrents)) + 1]]

\* the length of the longer window: np.mean adds it in eight running sums,
\* with an element left over
RoundWindowLen == 9

\* windows of samples (ia, ib, ic) of non-zero Park radius, for the calls
\* of least_squares_v1 followed in doubles: one sample; two samples of one
\* modulus; two samples, the second of twice the modulus of the first, in
\* one phase and in two; and the longer window
ScaledWindows ==
    { << <<R(-1, 2), R(1, 1), R(-1, 2)>> >>,
      << <<R(1, 1), R(-1, 2), R(-1, 2)>>, <<R(-1, 2), R(1, 1), R(-1, 2)>> >>,
      << <<R(1, 1), R(-1, 2), R(-1, 2)>>, <<R(2, 1), R(-1, 1), R(-1, 1)>> >>,
      << <<R(-1, 2), R(1, 1), R(-1, 2)>>, <<R(2, 1), R(-1, 1), R(-1, 1)>> >>,
      RoundWindow(RoundWindowLen) }

\* the factors a caller scales the three currents by
Scalings == { R(3, 1), R(-1, 1) }

\* samples whose Park radii have no common root, equal currents, whose Park
\* vector is what rounding leaves, and a current that is an infinity (a
\* float32 of the payload can be one): for compute_park_vector only
MixedCurrents ==
    PlainCurrents \cup { <<R(0, 1), R(1, 1), R(-1, 1)>>, <<R(3, 1), R(0, 1), R(5, 2)>>,
                         <<R(1, 1), R(1, 1), R(1, 1)>>,
                         <<R(0, 1), R(0, 1), <<1, 0, 0>>>> }

\* the arguments of apply_odt: an array, fs_original and f0_detected
OdtValues == { <<>> } \cup SeqsUpTo({R(0, 1), R(3, 1), R(-1, 2)}, MaxOdtLen)
OdtRates == { R(1000, 1), R(100, 1) }
OdtFundamentals ==
    { R(-60, 1), R(-5, 1), R(0, 1), R(10, 1), R(20, 1), R(40, 1), R(50, 1) }

\* a window of the callback: a ramp of LongWindowLen samples, at the rate and
\* the fundamental of main.py, lines 81-82
LongWindow == [i \in 1..LongWindowLen |-> R(i - 1, 1)]

\* two consecutive blocks of one channel
FilterBlocks == SeqsUpTo({R(0, 1), R(1, 1), R(-2, 1)}, 2)

DspInputs ==
    { [kind |-> "trajectory", id |-> Column(q, 1), iq |-> Column(q, 2)] :
         q \in SeqsUpTo(TrajPoints, MaxTraj) }
    \cup
    { [kind |-> "doubles", id |-> Column(q, 1), iq |-> Column(q, 2)] :
         q \in SeqsUpTo(DoublePoints, MaxDoubles)
                  \cup {RoundTrajectory(n) : n \in RoundLengths} }
    \cup
    { [kind |-> "currents", ia |-> Column(q, 1), ib |-> Column(q, 2),
       ic |-> Column(q, 3)] :
         q \in SeqsUpTo(UnitCurrents, MaxTraj) \cup SeqsUpTo(PlainCurrents, MaxTraj) }
    \cup
    { [kind |-> "phases", ia |-> Column(q, 1), ib |-> Column(q, 2),
       ic |-> Column(q, 3)] : q \in SeqsUpTo(MixedCurrents, 2) }
    \cup
    { [kind |-> "scaled", ia |-> Column(q, 1), ib |-> Column(q, 2),
       ic |-> Column(q, 3), c |-> c] :
         q \in ScaledWindows, c \in Scalings }
    \cup
    { [kind |-> "odt", values |-> v, fs_original |-> fs, f0_detected |-> f0] :
         v \in OdtValues, fs \in OdtRates, f0 \in OdtFundamentals }
    \cup
    { [kind |-> "odt", values |-> LongWindow, fs_original |-> MainRate,
       f0_detected |-> MainFundamental] }
    \cup
    { [kind |-> "blocks", first |-> x, second |-> y] :
         x \in FilterBlocks, y \in FilterBlocks }

\* the methods called so far
Called == {dsp_out[i].op : i \in 1..Len(dsp_out)}

otherVars == <<guiVars, cbVars, monVars>>

\* an array of rationals as doubles
AsDoubles(a) == Array([i \in 1..Len(a) |-> F64FromR(a[i])])

\* detector.scale_trajectory(id, iq)
CallScaleTrajectory ==
    /\ dsp_in.kind = "trajectory"
    /\ "scale_trajectory" \notin Called
    /\ dsp_out' = Append(dsp_out, [op |-> "scale_trajectory",
                                   out |-> scale_trajectory(dsp_in.id, dsp_in.iq)])
    /\ UNCHANGED <<dsp_in, otherVars>>

\* detector.scale_trajectory(id, iq) followed in the doubles of the code:
\* out is what the formulas give, out64 what the doubles give
CallScaleTrajectoryInDoubles ==
    /\ dsp_in.kind = "doubles"
    /\ "scale_trajectory" \notin Called
    /\ dsp_out' = Append(dsp_out,
          [op    |-> "scale_trajectory",
           out   |-> scale_trajectory(dsp_in.id, dsp_in.iq),
           out64 |-> scale_trajectory_f64(AsDoubles(dsp_in.id), AsDoubles(dsp_in.iq))])
    /\ UNCHANGED <<dsp_in, otherVars>>

\* detector.compute_park_vector(ia, ib, ic)
CallComputeParkVector ==
    /\ dsp_in.kind \in {"currents", "phases"}
    /\ "compute_park_vector" \notin Called
    /\ dsp_out' = Append(dsp_out,
          [op |-> "compute_park_vector",
           out |-> compute_park_vector_exact(dsp_in.ia, dsp_in.ib, dsp_in.ic)])
    /\ UNCHANGED <<dsp_in, otherVars>>

\* detector.least_squares_v1(ia, ib, ic)
CallLeastSquares ==
    /\ dsp_in.kind = "currents"
    /\ "least_squares_v1" \notin Called
    /\ dsp_out' = Append(dsp_out,
          [op |-> "least_squares_v1",
           out |-> least_squares_v1(dsp_in.ia, dsp_in.ib, dsp_in.ic)])
    /\ UNCHANGED <<dsp_in, otherVars>>

\* c * a, element by element
ScaledBy(c, a) == [i \in 1..Len(a) |-> RMul(c, a[i])]

\* c * a in doubles, element by element
ScaledBy64(c, a) ==
    Array([i \in 1..Len(a) |-> F64Mul(F64FromR(c), F64FromR(a[i]))])

\* detector.least_squares_v1(ia, ib, ic), and then
\* detector.least_squares_v1(c * ia, c * ib, c * ic): out is what the formulas
\* give, out64 what the doubles give
CallLeastSquaresScaled ==
    /\ dsp_in.kind = "scaled"
    /\ Len(dsp_out) < 2
    /\ LET c == IF Len(dsp_out) = 0 THEN R(1, 1) ELSE dsp_in.c
       IN  dsp_out' = Append(dsp_out,
              [op    |-> "least_squares_v1",
               out   |-> least_squares_v1(ScaledBy(c, dsp_in.ia),
                                          ScaledBy(c, dsp_in.ib),
                                          ScaledBy(c, dsp_in.ic)),
               out64 |-> least_squares_v1_f64(ScaledBy64(c, dsp_in.ia),
                                              ScaledBy64(c, dsp_in.ib),
                                              ScaledBy64(c, dsp_in.ic))])
    /\ UNCHANGED <<dsp_in, otherVars>>

\* detector.apply_odt(values, fs_original, f0_detected)
CallApplyOdt ==
    /\ dsp_in.kind = "odt"
    /\ "apply_odt" \notin Called
    /\ LET res == apply_odt(dsp_in.values, dsp_in.fs_original, dsp_in.f0_detected)
       IN  dsp_out' = Append(dsp_out, [op |-> "apply_odt", exc |-> res[1],
                                       out |-> res[2]])
    /\ UNCHANGED <<dsp_in, otherVars>>

\* detector.apply_filters(block), on the first block and then on the second:
\* the detector holds nothing but its coefficients, so a call changes no state
CallApplyFilters ==
    /\ dsp_in.kind = "blocks"
    /\ Len(dsp_out) < 2
    /\ LET block == IF Len(dsp_out) = 0 THEN dsp_in.first ELSE dsp_in.second
       IN  dsp_out' = Append(dsp_out, [op |-> "apply_filters",
                                       out |-> apply_filters(AsDoubles(block))])
    /\ UNCHANGED <<dsp_in, otherVars>>

InitDsp ==
    /\ GuiInit
    /\ gui_app = CbStart.gui_app
    /\ start_time = CbStart.start_time
    /\ current_buffers = CbStart.current_buffers
    /\ cb_attrs = CbStart.cb_attrs
    /\ cb_pc = CbStart.cb_pc
    /\ pending = CbStart.pending
    /\ clock = CbStart.clock
    /\ accepted = CbStart.accepted
    /\ trace = CbStart.trace
    /\ cb_budget = 0
    /\ dsp_in \in DspInputs
    /\ dsp_out = <<>>
    /\ monitor = MonitorInit /\ points = <<>>

NextDsp ==
    \/ CallScaleTrajectory
    \/ CallScaleTrajectoryInDoubles
    \/ CallComputeParkVector
    \/ CallLeastSquares
    \/ CallLeastSquaresScaled
    \/ CallApplyOdt
    \/ CallApplyFilters

SpecDsp == InitDsp /\ [][NextDsp]_vars


\* the record of a data point: the currents and the Park vector play no part
\* in the monitors
MonitorRecord(t, accel, temp) ==
    [timestamp |-> t, ax |-> Rat(accel[1], 10), ay |-> Rat(accel[2], 10),
     az |-> Rat(accel[3], 10), temp |-> <<temp, 1>>,
     ia |-> 0, ib |-> 0, ic |-> 0, id_val |-> 0, iq_val |-> 0,
     filtered_id |-> 0, filtered_iq |-> 0]

\* a run of _process_data_point over the points of a script, a sequence of
\* <<accel, temp>>, from the state and history S and the point i on: the
\* monitors and the history
RECURSIVE MonitorRunFrom(_, _, _)
MonitorRunFrom(S, script, i) ==
    IF i > Len(script) \/ Len(S.points) < 0 THEN S
    ELSE LET Stepped(step) ==
                 [monitor |-> step.state, points |-> Append(S.points, step.did)]
         IN  MonitorRunFrom(
                 Stepped(MonitorStep(S.monitor,
                             MonitorRecord(Len(S.points) + 1, script[i][1],
                                           script[i][2]))),
                 script, i + 1)

MonitorRun(S, script) == MonitorRunFrom(S, script, 1)

\* the plot buffers after the points of a script, from construction: each
\* deque holds the last maxlen values of its field
BuffersAfter(script) ==
    [k \in BufferKeys |->
        LastN([i \in 1..Len(script) |->
                  MonitorRecord(i, script[i][1], script[i][2])[BufferField(k)]],
              BufferMaxlen(k))]

\* n points of one acceleration at room temperature
Steady(n, accel) == [i \in 1..n |-> <<accel, ROOM_TEMP_C>>]

Rest   == <<0, 0, 0>>
Idle   == <<0, 1, 0>>
Shaken == <<2, -1, 2>>

\* the runs SpecMon starts after: construction; one point short of a
\* baseline; the baseline just learnt; one shaken point in the window; a
\* shaken point about to leave the window, alone or as one of two; a motor
\* at rest one point short of the baseline reset; a baseline learnt from a
\* mixed window and one point short of a high evaluation; and four runs one
\* point short of a comparison of two equal reals, which the rounding of the
\* doubles decides: an RMS of 0.05 g that the code computes as
\* 0.05000000000000002 (running) or as 0.05 (not running), and an RMS of
\* 0.15 g computed as 0.15000000000000005 against a threshold computed as
\* 0.15 (high) or as 0.15000000000000008 (not high)
MonitorWarmUps ==
    { <<>>,
      Steady(ACCEL_BASELINE_SAMPLES - 1, Idle),
      Steady(ACCEL_BASELINE_SAMPLES, Idle),
      Steady(ACCEL_BASELINE_SAMPLES, Idle) \o Steady(1, Shaken),
      Steady(ACCEL_BASELINE_SAMPLES, Idle) \o Steady(1, Shaken)
          \o Steady(ACCEL_WINDOW_SAMPLES - 2, Idle),
      Steady(ACCEL_BASELINE_SAMPLES, Idle) \o Steady(2, Shaken)
          \o Steady(ACCEL_WINDOW_SAMPLES - 3, Idle),
      Steady(ACCEL_BASELINE_SAMPLES, Idle) \o Steady(ACCEL_WINDOW_SAMPLES - 4, Rest),
      Steady(ACCEL_BASELINE_SAMPLES - 2, Rest) \o Steady(9, Shaken),
      Steady(45, Rest) \o Steady(14, Idle),
      Steady(6, Idle) \o Steady(1, Shaken) \o Steady(52, Rest),
      Steady(6, Rest) \o Steady(54, Idle) \o Steady(45, Rest) \o Steady(14, Shaken),
      Steady(30, Rest) \o Steady(36, Idle) \o Steady(10, Shaken) }

\* the points a caller hands to _process_data_point
Accels == {Rest, Idle, Shaken}
Temps  == {28, 29, 30, 31}
MonitorInputs ==
    {<<a, ROOM_TEMP_C>> : a \in Accels} \cup {<<Idle, t>> : t \in Temps}

\* the data points processed after the warm-up
MaxPoints == 3

\* _process_data_point(rec), lines 303-390
ProcessDataPoint ==
    /\ processed < MaxPoints
    /\ \E input \in MonitorInputs :
          LET rec  == MonitorRecord(Len(points) + 1, input[1], input[2])
              Processed(after) ==
                  /\ data_buffers' = after.data_buffers
                  /\ motor_state' = after.motor_state
                  /\ monitor' = after.monitor
                  /\ points' = Append(points, after.did)
          IN  /\ Processed(process_data_point(data_buffers, motor_state, monitor, rec))
              /\ process_calls' = Append(process_calls, rec.timestamp)
              /\ processed' = processed + 1
    /\ UNCHANGED <<incoming, poll_pc, drained_any, latest, cycle, producerVars,
                   cbVars, dspVars>>

InitMon ==
    /\ \E script \in MonitorWarmUps :
          LET S == MonitorRun([monitor |-> MonitorInit, points |-> <<>>], script)
              bufs == BuffersAfter(script)
          IN  /\ monitor = S.monitor
              /\ points = S.points
              /\ data_buffers = bufs
              /\ motor_state = ProcessStatus(bufs, [status |-> "Off", status_detail |-> ""])
              /\ process_calls = [i \in 1..Len(script) |-> i]
    /\ incoming = <<>>
    /\ poll_pc = "idle"
    /\ drained_any = FALSE
    /\ latest = <<>>
    /\ processed = 0
    /\ cycle = NoCycle
    /\ produced = 0
    /\ singles = 0
    /\ gui_app = CbStart.gui_app
    /\ start_time = CbStart.start_time
    /\ current_buffers = CbStart.current_buffers
    /\ cb_attrs = CbStart.cb_attrs
    /\ cb_pc = CbStart.cb_pc
    /\ pending = CbStart.pending
    /\ clock = CbStart.clock
    /\ accepted = CbStart.accepted
    /\ trace = CbStart.trace
    /\ cb_budget = 0
    /\ dsp_in = [kind |-> "none"] /\ dsp_out = <<>>

NextMon == ProcessDataPoint

SpecMon == InitMon /\ [][NextMon]_vars

-----------------------------------------------------------------------------
(* Claims about the ingress queue and the drain cycle (SpecGui) *)

\* C1 as stated: a drain cycle that found more than 500 records queued has
\* passed only the most recent record to _process_data_point.
C1_OnlyLatestProcessed ==
    (cycle.done /\ Len(cycle.dequeued) > OverflowCap)
        => cycle.calls = <<Last(cycle.dequeued)>>

\* C1 as amended: a drain cycle that dequeued more than 500 records has passed
\* to _process_data_point the first 501 records it dequeued, in order, and
\* then the last record it dequeued; every record dequeued in between was
\* discarded.
C1_OverflowKeepsFirst501AndLatest ==
    (cycle.done /\ Len(cycle.dequeued) > OverflowCap)
        => cycle.calls = SubSeq(cycle.dequeued, 1, OverflowCap + 1)
                            \o <<Last(cycle.dequeued)>>

\* a finished cycle that dequeued at least 503 records, so that one was
\* discarded
C1_Witness ==
    /\ cycle.done
    /\ Len(cycle.dequeued) >= OverflowCap + 3
    /\ Len(cycle.calls) = OverflowCap + 2

\* C2 as stated, for the one capacity the design names (the cap of 500): the
\* number of records held in the queue never exceeds it.
C2_QueueBounded == Len(incoming) <= OverflowCap

\* the deques of the fields in which the producer's records grow with their
\* order of arrival
GrowingKeys == BufferKeys \ {"accel_x", "accel_y", "accel_z", "temp_vals"}

\* the producer's records are one apart in their timestamps by
ProducerPeriod == ProducerRecord(1).timestamp - ProducerRecord(0).timestamp

\* the acceleration or temperature that deque k takes from the producer's
\* n-th record
ProducedAt(k, n) ==
    IF k = "accel_x" THEN ProducerAccel(n)[1]
    ELSE IF k = "accel_y" THEN ProducerAccel(n)[2]
    ELSE IF k = "accel_z" THEN ProducerAccel(n)[3]
    ELSE ProducerTemp(n)

\* deque k holds the values of the producer's records of timestamps ts
HoldsRecords(k, ts) ==
    LET Grown(by) == \A i \in 1..Len(ts) : data_buffers[k][i] = ts[i] + by
        Drawn(period) ==
            \A i \in 1..Len(ts) : data_buffers[k][i] = ProducedAt(k, ts[i] \div period)
    IN  /\ Len(data_buffers[k]) = Len(ts)
        /\ IF k \in GrowingKeys
           THEN Grown(ProducerRecord(0)[BufferField(k)] - ProducerRecord(0).timestamp)
           ELSE Drawn(ProducerPeriod)

\* the deque of timestamps that deque k is plotted against
TimestampsOf(k) ==
    IF k \in {"accel_ts", "accel_x", "accel_y", "accel_z"} THEN "accel_ts"
    ELSE IF k \in {"temp_ts", "temp_vals"} THEN "temp_ts"
    ELSE "current_ts"

\* C3: records are handed to _process_data_point in enqueue order, within a
\* cycle and across cycles, and every plot deque holds its values in enqueue
\* order: a deque of timestamps or of currents never falls (these fields of
\* the producer's records grow with the order of arrival), and a deque of
\* accelerations or temperatures holds at each index the value of the record
\* whose timestamp its deque of timestamps holds there.
C3_ArrivalOrder ==
    /\ \A i \in 1..(Len(process_calls) - 1) : process_calls[i] <= process_calls[i + 1]
    /\ \A k \in GrowingKeys :
          \A i \in 1..(Len(data_buffers[k]) - 1) :
              data_buffers[k][i] <= data_buffers[k][i + 1]
    /\ \A k \in BufferKeys \ GrowingKeys :
          HoldsRecords(k, data_buffers[TimestampsOf(k)])

\* a second or later cycle has finished that processed two records or more
C3_Witness ==
    /\ cycle.done
    /\ Len(cycle.calls) >= 2
    /\ Len(process_calls) > Len(cycle.calls)

\* C4: a drain cycle calls _update_plots at most once, never before its loop
\* has ended, and exactly when it dequeued at least one record.
C4_RedrawOncePerCycle ==
    /\ cycle.redraws <= 1
    /\ ~cycle.done => cycle.redraws = 0
    /\ cycle.done => (cycle.redraws = 1 <=> Len(cycle.dequeued) > 0)

\* a finished cycle that drained several records and redrew once
C4_Witness ==
    /\ cycle.done
    /\ Len(cycle.dequeued) >= 2
    /\ cycle.redraws = 1


\* the values of a sequence
Range(q) == {q[i] : i \in 1..Len(q)}

\* C27 as stated: no record is passed to _process_data_point twice, whatever
\* the queue held and however add_data_point and _poll_incoming interleave,
\* a cycle that takes the overflow branch on exactly 501 records included.
C27_NoRecordProcessedTwice ==
    Cardinality(Range(process_calls)) = Len(process_calls)

\* What lines 275-295 do: the calls of a cycle are all of different records,
\* but for a finished cycle that took the overflow branch and dequeued
\* nothing after its 501st record: that record is processed a second time,
\* as latest, and it is the only one.
C27_TwiceOnlyTheLastOf501 ==
    LET n == Len(cycle.calls)
    IN  IF cycle.done /\ cycle.overflowed /\ Len(cycle.dequeued) = OverflowCap + 1
        THEN /\ n = OverflowCap + 2
             /\ cycle.calls[n] = cycle.calls[n - 1]
             /\ Cardinality(Range(cycle.calls)) = n - 1
        ELSE Cardinality(Range(cycle.calls)) = n

\* a cycle dequeued exactly 501 records and processed the last of them twice
C27_LastOf501Twice ==
    /\ cycle.done /\ cycle.overflowed
    /\ Len(cycle.dequeued) = OverflowCap + 1
    /\ Len(process_calls) = OverflowCap + 2
    /\ Last(process_calls) = process_calls[Len(process_calls) - 1]
    /\ Len(data_buffers["accel_ts"]) >= 2
    /\ Last(data_buffers["accel_ts"]) =
          data_buffers["accel_ts"][Len(data_buffers["accel_ts"]) - 1]


\* the deques of a group have one length, that of the calls made so far up
\* to the maxlen m, and hold at each index values of one record, that of the
\* call
GroupAligned(keys, m) ==
    LET Aligned(calls) == \A k \in keys : HoldsRecords(k, calls)
    IN  Aligned(LastN(process_calls, m))

\* C28: after any sequence of _process_data_point calls the six acceleration
\* and temperature deques have one length, at most 300, the six current
\* deques have one length, at most 100, and index i of every deque of a group
\* holds a value of the same record, the i-th of the last calls.
C28_PlotBuffersAligned ==
    /\ GroupAligned(AccelKeys, MAX_ACCEL_TEMP_POINTS)
    /\ GroupAligned(CurrentKeys, MAX_CURRENT_POINTS)
    /\ Len(data_buffers["accel_ts"]) <= MAX_ACCEL_TEMP_POINTS
    /\ Len(data_buffers["current_ts"]) <= MAX_CURRENT_POINTS

\* more than 300 calls were made: both groups are full, at different
\* lengths, and the oldest records are gone from each
C28_Witness ==
    /\ Len(process_calls) > MAX_ACCEL_TEMP_POINTS
    /\ Len(data_buffers["temp_vals"]) = MAX_ACCEL_TEMP_POINTS
    /\ Len(data_buffers["filtered_iq"]) = MAX_CURRENT_POINTS
    /\ data_buffers["accel_ts"][1] # process_calls[1]
    /\ data_buffers["current_ts"][1] # data_buffers["accel_ts"][1]

-----------------------------------------------------------------------------
(* Claims about callback_handler (SpecCb) *)

\* the record the last callback handed to add_data_point
SentRecord == Last(incoming)

\* what process_pipeline returns on the three buffers as they are now
ChainOnBuffers ==
    process_pipeline(current_buffers.ia, current_buffers.ib, current_buffers.ic)

\* C5: a callback that reaches the filter stage takes the fallback path exactly
\* when the window holds fewer than 10 samples after the append or
\* process_pipeline raised; then the filtered (id, iq) it emits is the
\* fallback EMA state, and otherwise it is the last element of each array
\* process_pipeline returns on the window.
C5_FallbackExactlyWhenFewOrRaised ==
    trace.reached =>
        LET LastOf(out) ==
              /\ out.exc = "none"
              /\ trace.filtered = <<out.id_final.last, out.iq_final.last>>
        IN  /\ trace.fallback <=>
                  (trace.n_after < MinFilterSamples \/ trace.pipeline = "raised")
            /\ trace.fallback =>
                  trace.filtered = <<cb_attrs["filtered_id"], cb_attrs["filtered_iq"]>>
            /\ ~trace.fallback =>
                  /\ trace.pipeline = "returned"
                  /\ LastOf(ChainOnBuffers)
            /\ trace.sent = 1 =>
                  <<SentRecord.filtered_id, SentRecord.filtered_iq>> = trace.filtered

\* a record emitted by the first callback with ten samples buffered: the
\* chain ran on the nominal window and the record carries its last point,
\* not the EMA state that the nine callbacks before had set
C5_Witness ==
    /\ trace.reached
    /\ trace.sent = 1
    /\ trace.n_after = MinFilterSamples
    /\ ~trace.fallback
    /\ trace.pipeline = "returned"
    /\ HasAttr(cb_attrs, "filtered_id")
    /\ SentRecord.filtered_iq = <<0, 1>>
    /\ SentRecord.filtered_id = [response |-> "step", gain |-> 1,
                                 points |-> 36 * MinFilterSamples]

\* a record emitted with nine samples buffered: the EMA state
C5_WitnessFew ==
    /\ trace.reached
    /\ trace.sent = 1
    /\ trace.n_after = MinFilterSamples - 1
    /\ trace.fallback
    /\ trace.pipeline = "not_called"

\* C6: a callback in which process_pipeline returned leaves
\* callback_handler.filtered_id and .filtered_iq as they were, set or not.
C6_SuccessLeavesFallbackState ==
    (trace.reached /\ trace.pipeline = "returned") =>
        \A a \in {"filtered_id", "filtered_iq"} :
            /\ HasAttr(cb_attrs, a) <=> HasAttr(trace.pre_attrs, a)
            /\ HasAttr(cb_attrs, a) => cb_attrs[a] = trace.pre_attrs[a]

\* the chain returned on a sample whose Park vector differs from the fallback
\* state, which an EMA update would have moved
C6_Witness ==
    /\ trace.reached
    /\ trace.done
    /\ trace.pipeline = "returned"
    /\ HasAttr(cb_attrs, "filtered_id")
    /\ trace.raw /= <<cb_attrs["filtered_id"], cb_attrs["filtered_iq"]>>

\* C7: the raw Park vector of a callback is that of its own sample alone,
\*   id = sqrt(6) * (ia/3 - ib/6 - ic/6),  iq = sqrt(2) * (ib - ic)/2,
\* whatever the buffers hold and whichever path made the filtered output, and
\* the record handed to add_data_point carries it beside that sample.
C7_RawParkOfOwnSample ==
    trace.reached =>
        LET v   == trace.data.vals
            own == << FScale(1, 6, FSub(FSub(FScale(2, 1, v.ia), v.ib), v.ic)),
                      FScale(1, 2, FSub(v.ib, v.ic)) >>
        IN  /\ trace.raw = own
            /\ trace.sent = 1 =>
                  /\ <<SentRecord.id_val, SentRecord.iq_val>> = own
                  /\ <<SentRecord.ia, SentRecord.ib, SentRecord.ic>> = <<v.ia, v.ib, v.ic>>

\* a record emitted on the full-chain path while the buffers hold older
\* samples with another Park vector
C7_Witness ==
    /\ trace.reached
    /\ trace.sent = 1
    /\ ~trace.fallback
    /\ trace.raw /= <<<<1, 2>>, <<0, 1>>>>
    /\ Len(current_buffers.ia) >= MinFilterSamples

\* C8 as stated: no callback lets an exception out, and a callback on a
\* payload of at least 28 bytes that was received while the GUI was registered
\* hands exactly one record to add_data_point.
C8_OneRecordPerPayloadReceived ==
    /\ trace.done => ~trace.propagated
    /\ ( /\ trace.done
         /\ trace.data.len >= PayloadBytes
         /\ trace.gui_at_entry = "MotorApp" )
       => trace.sent = 1

\* C8 as amended: no callback lets an exception out, whatever the payload.  A
\* callback hands at most one record to add_data_point, which queues it, and
\* it hands over exactly one when its payload has at least 28 bytes and it
\* finds the GUI registered at each of its three reads of gui_app: at entry
\* (line 37), at line 129 and at line 132.  Otherwise it hands over none: a
\* GUI gone by line 129 ends the callback there, and a GUI gone between lines
\* 129 and 132 makes line 132 raise AttributeError, which lines 138-141 take,
\* leaving gui_app None.  A GUI gone after line 132 has read it does not stop
\* the record from being queued.
C8_NeverFatalOneRecord ==
    /\ trace.done => ~trace.propagated
    /\ trace.done => trace.sent \in {0, 1}
    /\ trace.done => Len(incoming) = trace.queue_before + trace.sent
    /\ trace.done =>
          ( trace.sent = 1 <=>
              /\ trace.data.len >= PayloadBytes
              /\ trace.gui_at_entry = "MotorApp"
              /\ trace.gui_at_test = "MotorApp"
              /\ trace.gui_at_load = "MotorApp" )
    /\ (trace.done /\ trace.gui_at_load = "None") =>
          /\ trace.gui_at_test = "MotorApp"
          /\ trace.send_exc = "AttributeError"
          /\ trace.sent = 0
          /\ gui_app = "None"
    /\ (trace.done /\ trace.gui_at_test = "None") =>
          /\ trace.gui_at_load = "unread"
          /\ trace.send_exc = "none"
    /\ (trace.done /\ trace.sent = 1) => trace.send_exc = "none"

\* the window was closed between lines 129 and 132 of a callback on a whole
\* payload: line 132 raised, the except of line 138 took it, nothing was
\* queued and nothing let out
C8_Witness ==
    /\ trace.done
    /\ trace.reached
    /\ trace.data.len >= PayloadBytes
    /\ trace.gui_at_entry = "MotorApp"
    /\ trace.gui_at_test = "MotorApp"
    /\ trace.gui_at_load = "None"
    /\ trace.send_exc = "AttributeError"
    /\ trace.sent = 0
    /\ Len(incoming) = trace.queue_before
    /\ ~trace.propagated

\* the window was closed after line 132 had read gui_app: the record was
\* queued all the same
C8_WitnessClosedBeforeCall ==
    /\ trace.done
    /\ trace.gui_at_load = "MotorApp"
    /\ trace.gui_at_call = "None"
    /\ trace.sent = 1
    /\ Len(incoming) = trace.queue_before + 1

\* the window was closed before line 129: the callback ended there
C8_WitnessClosedBeforeTest ==
    /\ trace.done
    /\ trace.reached
    /\ trace.gui_at_entry = "MotorApp"
    /\ trace.gui_at_test = "None"
    /\ trace.sent = 0

\* a NaN sample in a window the chain ran on: the chain returned, its last
\* point not a number, one record emitted, nothing let out
C8_WitnessNaN ==
    /\ trace.done
    /\ trace.reached
    /\ IsNaN(trace.data.vals.ia)
    /\ trace.pipeline = "returned"
    /\ trace.filtered = <<NaN, NaN>>
    /\ trace.sent = 1
    /\ ~trace.propagated

\* a short payload: the outer except took it
C8_WitnessShort ==
    /\ trace.done
    /\ trace.entered
    /\ trace.data.len < PayloadBytes
    /\ trace.sent = 0

\* channel c of the accepted samples, in arrival order
AcceptedChannel(i) == [k \in 1..Len(accepted) |-> accepted[k][i]]

\* C10: after n accepted samples each of the three current buffers holds the
\* most recent min(n, 100) values of its channel in arrival order, and the
\* three have one length.
C10_RingBuffers ==
    LET n == Len(accepted)
        m == IF n < BUFFER_SIZE THEN n ELSE BUFFER_SIZE
    IN  /\ current_buffers.ia = SubSeq(AcceptedChannel(1), n - m + 1, n)
        /\ current_buffers.ib = SubSeq(AcceptedChannel(2), n - m + 1, n)
        /\ current_buffers.ic = SubSeq(AcceptedChannel(3), n - m + 1, n)
        /\ Len(current_buffers.ia) = m
        /\ Len(current_buffers.ib) = m
        /\ Len(current_buffers.ic) = m

\* more than 100 samples accepted: the oldest has been evicted
C10_Witness ==
    /\ trace.reached
    /\ Len(accepted) > BUFFER_SIZE
    /\ Len(current_buffers.ia) = BUFFER_SIZE
    /\ current_buffers.ia[1] = accepted[Len(accepted) - BUFFER_SIZE + 1][1]
    /\ current_buffers.ia[1] /= accepted[1][1]

\* C11 as stated: the currents the Park transform receives for a sample are
\* the sample's currents less the mean of each buffer after the append, in the
\* single-sample call and in the window handed to process_pipeline.
C11_ParkReceivesDcRemoved ==
    trace.reached =>
        LET v == trace.data.vals
            b == current_buffers
        IN  /\ trace.park_in = << <<FSub(v.ia, FMean(b.ia))>>,
                                  <<FSub(v.ib, FMean(b.ib))>>,
                                  <<FSub(v.ic, FMean(b.ic))>> >>
            /\ trace.pipeline /= "not_called" =>
                  trace.pipeline_in =
                      << [i \in 1..Len(b.ia) |-> FSub(b.ia[i], FMean(b.ia))],
                         [i \in 1..Len(b.ib) |-> FSub(b.ib[i], FMean(b.ib))],
                         [i \in 1..Len(b.ic) |-> FSub(b.ic[i], FMean(b.ic))] >>

\* C11 as amended: no mean is taken off.  The single-sample Park call receives
\* the sample's own currents as unpacked, and process_pipeline, when called,
\* receives the three buffers as they are after the append: the most recent
\* accepted values, the sample last, also when the buffers are partly filled.
C11_ParkReceivesRawCurrents ==
    trace.reached =>
        LET v == trace.data.vals
            n == Len(accepted)
            m == IF n < BUFFER_SIZE THEN n ELSE BUFFER_SIZE
        IN  /\ trace.park_in = << <<v.ia>>, <<v.ib>>, <<v.ic>> >>
            /\ trace.pipeline /= "not_called" =>
                  /\ trace.pipeline_in =
                        << SubSeq(AcceptedChannel(1), n - m + 1, n),
                           SubSeq(AcceptedChannel(2), n - m + 1, n),
                           SubSeq(AcceptedChannel(3), n - m + 1, n) >>
                  /\ <<Last(trace.pipeline_in[1]), Last(trace.pipeline_in[2]),
                        Last(trace.pipeline_in[3])>> = <<v.ia, v.ib, v.ic>>

\* the chain was called on a partly filled window whose ia mean is not 0, so
\* that taking the mean off would have changed what the Park transform got
C11_Witness ==
    /\ trace.reached
    /\ trace.pipeline /= "not_called"
    /\ Len(current_buffers.ia) < BUFFER_SIZE
    /\ ~IsNaN(FMean(current_buffers.ia))
    /\ FMean(current_buffers.ia) /= <<0, 1>>

\* C12: a callback on a payload shorter than 28 bytes leaves the three current
\* buffers, the fallback EMA state and error_count as they were and hands no
\* record to add_data_point.
C12_ShortPayloadLeavesPipelineState ==
    (trace.done /\ trace.data.len < PayloadBytes) =>
        /\ ~trace.reached
        /\ current_buffers = trace.pre_buffers
        /\ cb_attrs = trace.pre_attrs
        /\ trace.sent = 0
        /\ Len(incoming) = trace.queue_before

\* a short payload arrived while the GUI was registered, with samples
\* buffered and the fallback state set
C12_Witness ==
    /\ trace.done
    /\ trace.entered
    /\ trace.data.len < PayloadBytes
    /\ trace.gui_at_entry = "MotorApp"
    /\ Len(current_buffers.ia) > 0
    /\ HasAttr(cb_attrs, "filtered_id")

-----------------------------------------------------------------------------
(* Claims about the stop (SpecStop) *)

\* C13: once _on_closing has set main.gui_app to None, a callback that
\* begins returns without appending to the current buffers, without touching
\* the fallback state and without enqueuing a record; _on_closing and every
\* step after it leave the plot buffers as they are and take nothing from the
\* queue, so the records queued at the stop are never handed to
\* _process_data_point.  The one record that can still join the queue after
\* the stop is that of a callback which had begun before it and had read
\* gui_app at line 132.
C13_StopDiscardsInFlight ==
    [][ /\ (gui_app = "MotorApp" /\ gui_app' = "None") =>
              UNCHANGED <<incoming, data_buffers, process_calls>>
        /\ gui_app = "None" =>
              /\ UNCHANGED <<data_buffers, process_calls>>
              /\ UNCHANGED <<current_buffers, cb_attrs, accepted>>
              /\ cb_pc = "idle" =>
                    /\ cb_pc' = "idle"
                    /\ UNCHANGED incoming
              /\ incoming' /= incoming =>
                    /\ cb_pc = "call"
                    /\ trace.gui_at_entry = "MotorApp"
                    /\ trace.gui_at_load = "MotorApp"
                    /\ incoming' = Append(incoming, pending)
      ]_vars

\* a callback on a whole payload has begun and ended after the stop, with a
\* record still queued
C13_Witness ==
    /\ gui_app = "None"
    /\ incoming /= <<>>
    /\ trace.done
    /\ trace.gui_at_entry = "None"
    /\ trace.data.len >= PayloadBytes

\* a callback that had begun before the stop queued its record after it, and
\* the record stays in the queue
C13_WitnessInFlight ==
    /\ gui_app = "None"
    /\ trace.done
    /\ trace.sent = 1
    /\ trace.gui_at_call = "None"
    /\ incoming /= <<>>
    /\ poll_pc = "idle"



\* alpha * raw + (1 - alpha) * state, alpha = 0.3
Smoothed(raw, state) ==
    FAdd(FScale(AlphaNum, AlphaDen, raw),
         FScale(AlphaDen - AlphaNum, AlphaDen, state))

\* C26: a callback that takes the fallback path, for too few samples or for
\* a failure of the chain alike, leaves in callback_handler.filtered_id and
\* .filtered_iq the raw Park vector of its sample if the attributes did not
\* exist yet, and otherwise 0.3 * raw + 0.7 * the value the attribute held,
\* per channel; raw is the unscaled Park vector of the sample alone; and the
\* filtered pair it emits is that new state.
C26_FallbackEma ==
    (trace.reached /\ trace.fallback) =>
        LET v    == trace.data.vals
            park == compute_park_vector(<<v.ia>>, <<v.ib>>, <<v.ic>>)
            raw  == <<park[1][1], park[2][1]>>
            pre  == trace.pre_attrs
        IN  /\ trace.raw = raw
            /\ trace.pipeline \in {"not_called", "raised"}
            /\ HasAttr(pre, "filtered_id") <=> HasAttr(pre, "filtered_iq")
            /\ cb_attrs["filtered_id"] =
                  IF HasAttr(pre, "filtered_id")
                  THEN Smoothed(raw[1], pre["filtered_id"]) ELSE raw[1]
            /\ cb_attrs["filtered_iq"] =
                  IF HasAttr(pre, "filtered_iq")
                  THEN Smoothed(raw[2], pre["filtered_iq"]) ELSE raw[2]
            /\ trace.filtered = <<cb_attrs["filtered_id"], cb_attrs["filtered_iq"]>>

\* a callback with too few samples whose sample has a Park vector other than
\* the fallback state, which earlier callbacks had set, and the state moved
C26_Witness ==
    /\ trace.reached /\ trace.fallback
    /\ trace.pipeline = "not_called"
    /\ HasAttr(trace.pre_attrs, "filtered_id")
    /\ ~IsNaN(trace.raw[1])
    /\ trace.raw[1] # trace.pre_attrs["filtered_id"]
    /\ cb_attrs["filtered_id"] # trace.pre_attrs["filtered_id"]
    /\ cb_attrs["filtered_id"] # trace.raw[1]

\* the first fallback callback ever: the state did not exist and is now the
\* raw Park vector of the sample
C26_WitnessFirst ==
    /\ trace.reached /\ trace.fallback
    /\ ~HasAttr(trace.pre_attrs, "filtered_id")
    /\ cb_attrs["filtered_id"] = trace.raw[1]
    /\ trace.pipeline = "not_called"

-----------------------------------------------------------------------------
(* Claims about the MotorFaultDetector methods (SpecDsp) *)

\* every point of the trajectory (i_d, i_q) is the origin
AllAtOrigin(i_d, i_q) ==
    \A i \in 1..Len(i_d) : i_d[i] = RZero /\ i_q[i] = RZero

\* every element of the array is a number, neither NaN nor infinite
AllFinite(a) == \A i \in 1..Len(a) : RIsFinite(a[i])

\* the calls of a method made so far
CallsOf(op) == {i \in 1..Len(dsp_out) : dsp_out[i].op = op}

\* the numbers of an array
Elements(a) == {a[i] : i \in 1..Len(a)}

\* the numbers a call returned in exact arithmetic: a score, an array or a
\* pair of arrays (apply_filters returns doubles)
Numbers(call) ==
    IF call.op = "least_squares_v1" THEN {call.out}
    ELSE IF call.op = "apply_odt" THEN Elements(call.out)
    ELSE IF call.op = "apply_filters" THEN {}
    ELSE Elements(call.out[1]) \cup Elements(call.out[2])

\* every value the calls returned is exact
DspExact == \A c \in 1..Len(dsp_out) : RInexact \notin Numbers(dsp_out[c])

\* C14: scale_trajectory returns a trajectory whose points are all at the
\* origin (mean radius 0) as it received it, both arrays unchanged, and no
\* element of the result is the NaN of a division of zero by zero.
C14_DegenerateTrajectoryUnchanged ==
    \A i \in CallsOf("scale_trajectory") :
        (Len(dsp_in.id) = Len(dsp_in.iq) /\ AllAtOrigin(dsp_in.id, dsp_in.iq)) =>
            /\ dsp_out[i].out = <<dsp_in.id, dsp_in.iq>>
            /\ AllFinite(dsp_out[i].out[1])
            /\ AllFinite(dsp_out[i].out[2])

\* scale_trajectory has been called on two or more points, all at the origin
C14_Witness ==
    /\ CallsOf("scale_trajectory") # {}
    /\ dsp_in.kind = "trajectory"
    /\ Len(dsp_in.id) >= 2
    /\ AllAtOrigin(dsp_in.id, dsp_in.iq)

\* the mean radius of a scaled trajectory, as np.mean(np.sqrt(d**2 + q**2))
\* gives it in doubles
MeanRadius64(out64) == F64Mean(F64Radii(out64[1], out64[2]))

\* the mean radius of a scaled trajectory in real numbers
MeanRadius(out) == RMean(Radii(out[1], out[2]))

\* the calls of scale_trajectory on a trajectory with a point off the origin
ScaledCalls ==
    {i \in CallsOf("scale_trajectory") :
        Len(dsp_in.id) = Len(dsp_in.iq) /\ ~AllAtOrigin(dsp_in.id, dsp_in.iq)}

\* C15 as stated: whenever the mean radius of the input is not zero, the
\* trajectory scale_trajectory returns has a mean radius of exactly 1.0, as
\* the doubles of the code compute it.
C15_MeanRadiusExactlyOne ==
    \A i \in ScaledCalls :
        dsp_in.kind = "doubles" =>
            F64Eq(MeanRadius64(dsp_out[i].out64), F64FromInt(1))

\* C15: whenever the mean radius of the input is not zero, the trajectory
\* scale_trajectory returns is the input divided by its mean radius, point by
\* point, so both arrays keep their length and the mean radius of the result
\* is exactly 1 in real numbers.
C15_MeanRadiusOneInReals ==
    \A i \in ScaledCalls :
        LET r_mean == RMean(Radii(dsp_in.id, dsp_in.iq))
            out    == dsp_out[i].out
        IN  /\ r_mean # RZero
            /\ Len(out[1]) = Len(dsp_in.id)
            /\ Len(out[2]) = Len(dsp_in.iq)
            /\ \A j \in 1..Len(dsp_in.id) :
                  /\ out[1][j] = RDiv(dsp_in.id[j], r_mean)
                  /\ out[2][j] = RDiv(dsp_in.iq[j], r_mean)
            /\ MeanRadius(out) = R(1, 1)

\* scale_trajectory has been called on a trajectory of eight points or more,
\* of radii that differ: the mean radius of the result is 1 in real numbers,
\* and in the doubles of the code it is a number that is not 1.0
C15_Witness ==
    /\ ScaledCalls # {}
    /\ dsp_in.kind = "doubles"
    /\ Len(dsp_in.id) >= 8
    /\ \A i \in ScaledCalls :
          /\ MeanRadius(dsp_out[i].out) = R(1, 1)
          /\ MeanRadius64(dsp_out[i].out64).k = "num"
          /\ ~F64Eq(MeanRadius64(dsp_out[i].out64), F64FromInt(1))

\* scale_trajectory has been called on a trajectory that np.mean splits in
\* two to add up
C15_WitnessSplitSum ==
    /\ ScaledCalls # {}
    /\ dsp_in.kind = "doubles"
    /\ Len(dsp_in.id) > 128
    /\ \A i \in ScaledCalls : MeanRadius(dsp_out[i].out) = R(1, 1)

\* the snapshot of currents ia = 1.0, ib = -0.5, ic = -0.5
IsSnapshot(a, b, c) == a = R(1, 1) /\ b = R(-1, 2) /\ c = R(-1, 2)

\* C16: compute_park_vector returns two arrays of the length of its
\* arguments, with id = sqrt(2/3)*ia - ib/sqrt(6) - ic/sqrt(6), stated here
\* as sqrt(6)*id = 2*ia - ib - ic, and iq = (ib - ic)/sqrt(2) at every index;
\* iq = 0 where ib = ic; the snapshot (1.0, -0.5, -0.5) gives
\* id = sqrt(2/3) + 1/sqrt(6) and iq = 0; and the scalar transform of
\* diagnose_motor.py gives the same pair for each sample.
C16_ParkFormulas ==
    \A c \in CallsOf("compute_park_vector") :
        LET ia == dsp_in.ia
            ib == dsp_in.ib
            ic == dsp_in.ic
            i_d == dsp_out[c].out[1]
            i_q == dsp_out[c].out[2]
        IN  /\ Len(i_d) = Len(ia)
            /\ Len(i_q) = Len(ia)
            /\ \A i \in 1..Len(ia) :
                 /\ RMul(RSqrt(R(6, 1)), i_d[i])
                       = RSub(RSub(RMul(R(2, 1), ia[i]), ib[i]), ic[i])
                 /\ i_q[i] = RDiv(RSub(ib[i], ic[i]), RSqrt(R(2, 1)))
                 /\ ib[i] = ic[i] => i_q[i] = RZero
                 /\ IsSnapshot(ia[i], ib[i], ic[i]) =>
                       /\ i_d[i] = RAdd(RSqrt(R(2, 3)), RDiv(R(1, 1), RSqrt(R(6, 1))))
                       /\ i_q[i] = RZero
                 /\ diagnose_compute_park_vector(ia[i], ib[i], ic[i])
                       = <<i_d[i], i_q[i]>>

\* compute_park_vector has been called on two samples or more, the snapshot
\* among them and a sample with ib /= ic and ic /= 0 among them
C16_Witness ==
    /\ CallsOf("compute_park_vector") # {}
    /\ Len(dsp_in.ia) >= 2
    /\ \E i \in 1..Len(dsp_in.ia) : IsSnapshot(dsp_in.ia[i], dsp_in.ib[i], dsp_in.ic[i])
    /\ \E i \in 1..Len(dsp_in.ia) :
          dsp_in.ib[i] # dsp_in.ic[i] /\ dsp_in.ic[i] # RZero

\* the target length of a call of apply_odt: fs_target*T/f0_target with
\* T = N*f0_detected/fs_original, cut to an integer
TargetLength(values, fs_original, f0_detected) ==
    RTrunc(RDiv(RMul(R(fs_target * Len(values), 1), f0_detected),
                RMul(R(f0_target, 1), fs_original)))

\* a degenerate window: no positive fundamental, fewer than two samples, or
\* a target length below two
DegenerateWindow(values, fs_original, f0_detected) ==
    \/ f0_detected[1] <= 0
    \/ Len(values) < 2
    \/ TargetLength(values, fs_original, f0_detected) < 2

\* C17: apply_odt raises, and returns no array, whenever f0_detected <= 0,
\* the input has fewer than 2 samples, or the target length S is below 2.
C17_OdtRaisesOnDegenerate ==
    \A c \in CallsOf("apply_odt") :
        DegenerateWindow(dsp_in.values, dsp_in.fs_original, dsp_in.f0_detected)
            => dsp_out[c].exc # "none"

\* what apply_odt does on a degenerate window of two samples or more: it
\* raises only for a target length below 0, and otherwise returns an array
\* of S elements, empty or of one element.
C17_OdtReturnsShortArray ==
    \A c \in CallsOf("apply_odt") :
        LET S == TargetLength(dsp_in.values, dsp_in.fs_original, dsp_in.f0_detected)
        IN  (Len(dsp_in.values) >= 2 /\ S < 2) =>
               IF S < 0 THEN dsp_out[c].exc = "ValueError"
               ELSE dsp_out[c].exc = "none" /\ Len(dsp_out[c].out) = S

\* the arrays of doubles a and b hold the same numbers
SameDoubles(a, b) ==
    /\ Len(a) = Len(b)
    /\ \A i \in 1..Len(a) : F64Eq(a[i], b[i])

\* C18: the filter cascade keeps its delay-line state between calls: two
\* consecutive blocks of a channel filtered by two successive calls of
\* apply_filters give the samples that one call on their concatenation gives.
C18_FilterStateCarriedAcrossCalls ==
    (dsp_in.kind = "blocks" /\ CallsOf("apply_filters") = {1, 2}) =>
        SameDoubles(dsp_out[1].out \o dsp_out[2].out,
                    apply_filters(AsDoubles(dsp_in.first \o dsp_in.second)))

\* what the calls give: each block filtered from a zero delay line, whatever
\* was filtered before it
C18_EachCallStartsFromRest ==
    dsp_in.kind = "blocks" =>
        \A c \in CallsOf("apply_filters") :
            SameDoubles(dsp_out[c].out,
                        apply_filters(AsDoubles(IF c = 1 THEN dsp_in.first
                                                ELSE dsp_in.second)))

\* the Park vector modulus of the currents is m at every sample
ModulusIs(ia, ib, ic, m) ==
    LET park == compute_park_vector_exact(ia, ib, ic)
        PVM  == Radii(park[1], park[2])
    IN  \A i \in 1..Len(PVM) : PVM[i] = m

\* the classification the program shows for a data point: the status line
\* 325-327 of motor_gui.py set once a sample is buffered. No score reaches it:
\* least_squares_v1 returns the mean square error alone (line 129), and
\* callback_handler does not call it
ClassificationShown(score) ==
    ProcessStatus([k \in {"accel_x"} |-> <<score>>],
                  [status |-> "Off", status_detail |-> ""]).status

\* C19 as stated: the scorer returns score 0 and classification Good for
\* currents whose Park vector modulus is 1.0 at every sample, and score 1.0
\* and classification Fault for currents whose modulus is 2.0 at every sample.
C19_ScoreOneAtModulusTwo ==
    \A c \in CallsOf("least_squares_v1") :
        /\ ModulusIs(dsp_in.ia, dsp_in.ib, dsp_in.ic, R(1, 1)) =>
              /\ dsp_out[c].out = R(0, 1)
              /\ ClassificationShown(dsp_out[c].out) = "Good"
        /\ ModulusIs(dsp_in.ia, dsp_in.ib, dsp_in.ic, R(2, 1)) =>
              /\ dsp_out[c].out = R(1, 1)
              /\ ClassificationShown(dsp_out[c].out) = "Fault"

\* what the code does instead: least_squares_v1 returns 0 in real numbers for
\* currents whose Park vector modulus is 1.0 at every sample and 0 as well
\* where it is 2.0 at every sample, and the status shown is Good in both cases
C19_ScoreZeroAtConstantModulus ==
    \A c \in CallsOf("least_squares_v1") :
        /\ ModulusIs(dsp_in.ia, dsp_in.ib, dsp_in.ic, R(1, 1)) =>
              /\ dsp_out[c].out = R(0, 1)
              /\ ClassificationShown(dsp_out[c].out) = "Good"
        /\ ModulusIs(dsp_in.ia, dsp_in.ib, dsp_in.ic, R(2, 1)) =>
              /\ dsp_out[c].out = R(0, 1)
              /\ ClassificationShown(dsp_out[c].out) = "Good"

\* least_squares_v1 has been called on two samples or more of different
\* phases whose Park vector modulus is 2.0 at each
C19_Witness ==
    /\ CallsOf("least_squares_v1") # {}
    /\ Len(dsp_in.ia) >= 2
    /\ dsp_in.ia[1] # dsp_in.ia[2]
    /\ ModulusIs(dsp_in.ia, dsp_in.ib, dsp_in.ic, R(2, 1))

\* both calls of a scaled pair are made: least_squares_v1 on the currents
\* and on c times the currents
ScaledPairDone == dsp_in.kind = "scaled" /\ Len(dsp_out) = 2

\* the Park vector modulus of the currents is the same at every sample
ConstantModulus(ia, ib, ic) ==
    LET park == compute_park_vector_exact(ia, ib, ic)
        PVM  == Radii(park[1], park[2])
    IN  \A i \in 1..Len(PVM) : PVM[i] = PVM[1] /\ PVM[1] # RZero

\* C30 as stated, in the doubles of the code: least_squares_v1 returns the
\* same score for c*ia, c*ib, c*ic as for ia, ib, ic, and 0 for currents whose
\* Park vector modulus is one non-zero constant at every sample.
C30_ScoreUnchangedByScaling ==
    ScaledPairDone =>
        /\ F64Eq(dsp_out[2].out64, dsp_out[1].out64)
        /\ ConstantModulus(dsp_in.ia, dsp_in.ib, dsp_in.ic) =>
              /\ F64IsZero(dsp_out[1].out64)
              /\ F64IsZero(dsp_out[2].out64)

\* C30: for c /= 0 and currents of non-zero mean Park radius,
\* least_squares_v1(c*ia, c*ib, c*ic) = least_squares_v1(ia, ib, ic) in real
\* numbers, and currents whose Park vector modulus is one non-zero constant
\* at every sample score 0 in real numbers.
C30_ScoreUnchangedInReals ==
    ScaledPairDone =>
        /\ dsp_in.c # RZero
        /\ dsp_out[2].out = dsp_out[1].out
        /\ ConstantModulus(dsp_in.ia, dsp_in.ib, dsp_in.ic) =>
              /\ dsp_out[1].out = RZero
              /\ dsp_out[2].out = RZero

\* least_squares_v1 has scored eight samples or more of different modulus and
\* the same samples times 3: in real numbers the score is not 0 and is the
\* same in both calls, in the doubles of the code the two scores differ
C30_Witness ==
    /\ ScaledPairDone
    /\ dsp_in.c = R(3, 1)
    /\ Len(dsp_in.ia) >= 8
    /\ ~ConstantModulus(dsp_in.ia, dsp_in.ib, dsp_in.ic)
    /\ dsp_out[1].out # RZero
    /\ dsp_out[2].out = dsp_out[1].out
    /\ dsp_out[1].out64.k = "num" /\ dsp_out[2].out64.k = "num"
    /\ ~F64Eq(dsp_out[2].out64, dsp_out[1].out64)

\* least_squares_v1 has scored a sample of constant modulus and its
\* negative: the score is 0 in real numbers, and in doubles it is not 0
C30_WitnessConstantModulus ==
    /\ ScaledPairDone
    /\ dsp_in.c = R(-1, 1)
    /\ ConstantModulus(dsp_in.ia, dsp_in.ib, dsp_in.ic)
    /\ dsp_out[1].out = RZero
    /\ ~F64IsZero(dsp_out[1].out64)

\* WindowTargetLength is what lines 74-78 give in doubles at the rate and the
\* fundamental of main.py, for every length of a window of callback_handler
\* (looked at once apply_odt has been called on such a window)
WindowTargetLengthAgrees ==
    (dsp_in.kind = "odt" /\ dsp_in.values = LongWindow /\ dsp_out # <<>>) =>
        \A N \in 1..BUFFER_SIZE :
            WindowTargetLength(N) = TargetLength64(N, MainRate, MainFundamental)

\* line 39 for one sample, in the doubles of the code: i_d
ParkId64(ia, ib, ic) ==
    compute_park_vector_f64(<<F64FromR(ia)>>, <<F64FromR(ib)>>, <<F64FromR(ic)>>)[1][1]

\* currents of a sample, in A: multiples of 1/8 up to 2, and 4, 8 and 64
RoundingCurrents ==
    { Rat(n, 8) : n \in (-16..16) \cup {-512, -64, -32, 32, 64, 512} }

\* ParkIdRounding says what line 39 gives in doubles, wherever it says "zero",
\* "negative" or "positive": at equal currents and at ia = 0, ib = -ic
\* (looked at once apply_odt has been called on a window of the callback)
ParkIdRoundingAgrees ==
    (dsp_in.kind = "odt" /\ dsp_in.values = LongWindow /\ dsp_out # <<>>) =>
        \A x \in RoundingCurrents :
            \A t \in { <<x, x, x>>, <<<<0, 1>>, x, FSub(<<0, 1>>, x)>> } :
                LET left == ParkIdRounding(t[1], t[2], t[3])
                    d    == ParkId64(t[1], t[2], t[3])
                IN  /\ left = "zero" => F64IsZero(d)
                    /\ left = "negative" => ~F64IsZero(d) /\ d.s = 1
                    /\ left = "positive" => ~F64IsZero(d) /\ d.s = 0

\* fs_target * T / f0_target in real numbers, T = N * f0_detected / fs_original
ExactTargetLength(values, fs_original, f0_detected) ==
    RDiv(RMul(R(fs_target * Len(values), 1), f0_detected),
         RMul(R(f0_target, 1), fs_original))

\* the integer nearest to the rational v >= 0, the even one of two
RoundNearest(v) ==
    LET fl   == v[1] \div v[2]
        rest == 2 * (v[1] - fl * v[2])
    IN  IF rest < v[2] THEN fl
        ELSE IF rest > v[2] THEN fl + 1
        ELSE IF fl % 2 = 0 THEN fl ELSE fl + 1

\* the calls of apply_odt that returned an array, on a positive fundamental
OdtReturned ==
    {c \in CallsOf("apply_odt") :
        dsp_out[c].exc = "none" /\ dsp_in.f0_detected[1] > 0}

\* C24 as stated: the target sample count apply_odt uses, the length of the
\* array it returns, is fs_target * T / f0_target rounded to the nearest
\* integer, with T = N * f0_detected / fs_original.
C24_TargetLengthRounded ==
    \A c \in OdtReturned :
        Len(dsp_out[c].out) =
            RoundNearest(ExactTargetLength(dsp_in.values, dsp_in.fs_original,
                                           dsp_in.f0_detected))

\* What line 78 does: the count is the quotient cut to its integer part, and
\* one less than that where the quotient is a whole number the doubles fall
\* short of; N = 100, fs_original = 1000, f0_detected = 50 give 300.
C24_TargetLengthTruncated ==
    /\ \A c \in OdtReturned :
          LET v == ExactTargetLength(dsp_in.values, dsp_in.fs_original,
                                     dsp_in.f0_detected)
              S == Len(dsp_out[c].out)
          IN  \/ S = RTrunc(v)
              \/ S = RTrunc(v) - 1 /\ v[2] = 1
    /\ OdtReturned # {} => TargetLength64(100, R(1000, 1), R(50, 1)) = 300

\* apply_odt has returned 4 values for a quotient of 4.8
C24_TruncatedNotRounded ==
    /\ OdtReturned # {}
    /\ ExactTargetLength(dsp_in.values, dsp_in.fs_original, dsp_in.f0_detected)
          = R(24, 5)
    /\ \A c \in OdtReturned : Len(dsp_out[c].out) = 4

\* apply_odt has returned one value fewer than fs_target * T / f0_target, a
\* whole number, for a window at the rate and fundamental of main.py
C24_ShortOfWholeQuotient ==
    /\ OdtReturned # {}
    /\ dsp_in.fs_original = MainRate /\ dsp_in.f0_detected = MainFundamental
    /\ \A c \in OdtReturned :
          Len(dsp_out[c].out) + 1 =
             RTrunc(ExactTargetLength(dsp_in.values, dsp_in.fs_original,
                                      dsp_in.f0_detected))


\* a <= b for rationals
RLeq(a, b) == a[1] * b[2] <= b[1] * a[2]

\* every element of the array is at most the next
NonDecreasing(a) == \A i \in 1..(Len(a) - 1) : RLeq(a[i], a[i + 1])

\* y lies between two adjacent samples of the array
BetweenAdjacent(y, a) ==
    \E i \in 1..(Len(a) - 1) :
        \/ RLeq(a[i], y) /\ RLeq(y, a[i + 1])
        \/ RLeq(a[i + 1], y) /\ RLeq(y, a[i])

C25_WitnessRamp ==
    /\ CallsOf("apply_odt") # {}
    /\ dsp_in.kind = "odt"
    /\ dsp_in.values = LongWindow
    /\ \A c \in CallsOf("apply_odt") : Len(dsp_out[c].out) > LongWindowLen

-----------------------------------------------------------------------------
(* Claims about the monitors of _process_data_point (SpecMon) *)

\* the point evaluated the window against the threshold
IsEvaluation(p) == p.evaluated

\* the magnitudes buffered by the data points i-n+1 .. i
MagsUpTo(i, n) ==
    [k \in 1..n |-> [mag   |-> points[i - n + k].accel_mag,
                     accel |-> points[i - n + k].accel]]

\* _vibe_baseline_ready after the data point i
ReadyAfter(i) ==
    IF i < Len(points) THEN points[i + 1].ready ELSE monitor.vibe_baseline_ready

\* the data point i found no baseline and left one
BecameReady(i) == ~points[i].ready /\ ReadyAfter(i)

\* the data point that left the baseline which point i found
LearntBefore(i) ==
    CHOOSE j \in 1..(i - 1) :
        BecameReady(j) /\ \A k \in (j + 1)..(i - 1) : ~BecameReady(k)

\* the data point i found a baseline and 60 magnitudes or more buffered, its
\* own included
Evaluates(i) == points[i].ready /\ i >= ACCEL_WINDOW_SAMPLES

\* the RMS of the 60 magnitudes up to the data point i exceeded, as the code
\* computes the two, the threshold of the baseline that the point found
ExceededAt(i) ==
    AboveThreshold(MagsUpTo(i, ACCEL_WINDOW_SAMPLES),
                   Baseline(MagsUpTo(LearntBefore(i), ACCEL_BASELINE_SAMPLES)))

\* C20: a data point produces a high-vibration warning exactly when it finds
\* the baseline ready and 60 magnitudes buffered (an evaluation) and the RMS
\* of the last 60 magnitudes exceeded the threshold
\* baseline_mean + max(0.01, 2 * baseline_std), as the code computes the
\* two, on this evaluation and on the two evaluations before it; and an
\* evaluation whose RMS did not exceed the threshold leaves the
\* consecutive-high count at 0.  The outcome of an evaluation is computed
\* from the accelerations of the history when the data point is the latest,
\* and is the one recorded for it from then on.
C20_VibrationWarningAfterThreeHigh ==
    LET evals == SelectSeq([i \in 1..Len(points) |-> i], Evaluates)
        n     == Len(points)
    IN  /\ \A i \in 1..n :
              /\ points[i].vibration => Evaluates(i)
              /\ points[i].high => Evaluates(i)
        /\ n > 0 => (points[n].high <=> (Evaluates(n) /\ ExceededAt(n)))
        /\ \A j \in 1..Len(evals) :
              points[evals[j]].vibration <=>
                 (j >= 3 /\ points[evals[j]].high /\ points[evals[j - 1]].high
                         /\ points[evals[j - 2]].high)
        /\ (n > 0 /\ Evaluates(n) /\ ~points[n].high) =>
              monitor.vibe_consec_high = 0

\* three data points in a row were evaluated above the threshold after one
\* that was not, the first of them with an RMS that equals the threshold as
\* a real number (0.15 g) and exceeds it as the code computes the two, and
\* the third produced the warning the first two did not
C20_Witness ==
    /\ processed >= 3
    /\ LET n == Len(points)
       IN  /\ points[n].vibration /\ ExceededAt(n)
           /\ points[n - 1].high /\ ~points[n - 1].vibration
           /\ points[n - 2].high /\ ~points[n - 2].vibration
           /\ ThresholdTie(MagsUpTo(n - 2, ACCEL_WINDOW_SAMPLES),
                           Baseline(MagsUpTo(LearntBefore(n - 2),
                                             ACCEL_BASELINE_SAMPLES)))
           /\ Evaluates(n - 3) /\ ~points[n - 3].high
           /\ monitor.vibe_consec_high = 3
           /\ monitor.warning = <<"High vibration">>

\* three data points in a row were evaluated above the threshold, away from
\* it, after one that was not, and the third produced the warning
C20_WitnessAway ==
    /\ processed >= 3
    /\ LET n == Len(points)
       IN  /\ points[n].vibration /\ points[n].high
           /\ points[n - 1].high /\ ~points[n - 1].vibration
           /\ points[n - 2].high /\ ~points[n - 2].vibration
           /\ ~points[n - 2].tie
           /\ points[n - 3].evaluated /\ ~points[n - 3].high
           /\ monitor.vibe_consec_high = 3

\* an evaluation at or below the threshold followed a high one and ended the
\* warnings
C20_WitnessReset ==
    /\ processed >= 2
    /\ LET n == Len(points)
       IN  /\ points[n].evaluated /\ ~points[n].high /\ ~points[n].vibration
           /\ points[n - 1].vibration
           /\ monitor.vibe_consec_high = 0
           /\ monitor.vibe_consec_clear = 1

\* an evaluation whose RMS equals the threshold as a real number (0.15 g)
\* and does not exceed it as the code computes the two, followed by two
\* above the threshold that produced no warning
C20_WitnessTieNotHigh ==
    /\ processed >= 3
    /\ LET n == Len(points)
       IN  /\ points[n - 2].tie /\ Evaluates(n - 2) /\ ~points[n - 2].high
           /\ points[n - 1].high /\ ExceededAt(n)
           /\ ~points[n].vibration
           /\ monitor.vibe_consec_high = 2

\* C21 as stated: the baseline is cleared only on an evaluation that is the
\* twentieth or later of a run of consecutive evaluations whose window RMS
\* was below half the run-detection threshold, 0.025 g, none of the earlier
\* ones of the run having cleared it.
C21_ResetOnlyAfterTwentyBelowHalf ==
    LET evals == SelectSeq(points, IsEvaluation)
    IN  \A j \in 1..Len(evals) :
           evals[j].reset =>
              /\ j >= VibeResetAfter
              /\ \A k \in (j - VibeResetAfter + 1)..j :
                    /\ evals[k].below_half
                    /\ k < j => ~evals[k].reset

\* What lines 367-384 do: the baseline is cleared exactly on an evaluation
\* whose window RMS is below 0.025 g and which is the twentieth or later of a
\* run of consecutive evaluations at or below the warning threshold since the
\* baseline was learnt.
C21_ResetAfterTwentyNotHigh ==
    LET evals == SelectSeq(points, IsEvaluation)
    IN  \A j \in 1..Len(evals) :
           evals[j].reset <=>
              /\ evals[j].below_half
              /\ j >= VibeResetAfter
              /\ \A k \in (j - VibeResetAfter + 1)..j :
                    /\ ~evals[k].high
                    /\ k < j => ~evals[k].reset

\* the baseline has just been cleared on the first evaluation whose window
\* RMS was below 0.025 g
C21_ResetAtFirstBelowHalf ==
    /\ processed >= 1
    /\ LET n == Len(points)
       IN  /\ points[n].reset /\ points[n].below_half
           /\ points[n - 1].evaluated /\ ~points[n - 1].below_half
           /\ ~monitor.vibe_baseline_ready

\* the real a = (n/d)*sqrt(r) is at least the positive rational q
RAtLeast(a, q) ==
    LET x == a[1] * q[2]
        y == a[2] * q[1]
    IN  /\ a # RInexact /\ RIsFinite(a)
        /\ x > 0
        /\ x >= y \/ a[3] * x * x >= y * y

\* C22: baseline_ready changes from false to true only on a data point at
\* which at least 60 magnitudes are buffered and the RMS of the most recent
\* 60 exceeds 0.05 g as the code computes it; the mean learnt is the mean of
\* those 60 magnitudes and the standard deviation learnt is at least
\* 1e-6 g; and no vibration warning is produced on a point that found
\* baseline_ready false.  What a data point learnt from is computed from the
\* accelerations of the history when the point is the latest.
C22_BaselineLearntOnlyWhileRunning ==
    /\ \A i \in 1..Len(points) :
          /\ BecameReady(i) <=> points[i].learned
          /\ BecameReady(i) =>
                /\ i >= ACCEL_BASELINE_SAMPLES
                /\ Len(monitor.accel_mag_buf) >= ACCEL_BASELINE_SAMPLES
          /\ ~points[i].ready => ~points[i].vibration
    /\ (points # <<>> /\ BecameReady(Len(points))) =>
          /\ F64Less(InG64(ACCEL_RUN_MAG_THRESHOLD),
                     Rms64(Mags64(MagsUpTo(Len(points), ACCEL_BASELINE_SAMPLES))))
          /\ monitor.vibe_baseline_mean =
                R(IntSum(Mags(MagsUpTo(Len(points), ACCEL_BASELINE_SAMPLES))),
                  ACCEL_BASELINE_SAMPLES)
          /\ RAtLeast(monitor.vibe_baseline_std, StdFloor)
          /\ monitor.vibe_baseline_from =
                MagsUpTo(Len(points), ACCEL_BASELINE_SAMPLES)
          /\ LastN(monitor.accel_mag_buf, ACCEL_BASELINE_SAMPLES) =
                MagsUpTo(Len(points), ACCEL_BASELINE_SAMPLES)

\* the baseline has just been learnt from 45 magnitudes of 0 and 15 of
\* 0.1 g, whose RMS is 0.05 g as a real number and 0.05000000000000002 as
\* the code computes it
C22_Witness ==
    /\ processed >= 1
    /\ LET n == Len(points)
       IN  /\ BecameReady(n)
           /\ RmsAgainst(SumSq(Mags(MagsUpTo(n, ACCEL_BASELINE_SAMPLES))),
                         ACCEL_BASELINE_SAMPLES, ACCEL_RUN_MAG_THRESHOLD) = 0
           /\ monitor.vibe_baseline_mean = R(1, 4)
           /\ monitor.vibe_baseline_std # StdFloor

\* 60 magnitudes are buffered whose RMS is 0.05 g as a real number and as
\* the code computes it, and no baseline was learnt
C22_WitnessTieNotLearnt ==
    /\ processed >= 1
    /\ LET n == Len(points)
       IN  /\ n >= ACCEL_BASELINE_SAMPLES
           /\ ~points[n].ready /\ ~monitor.vibe_baseline_ready
           /\ RmsAgainst(SumSq(Mags(MagsUpTo(n, ACCEL_BASELINE_SAMPLES))),
                         ACCEL_BASELINE_SAMPLES, ACCEL_RUN_MAG_THRESHOLD) = 0

\* the baseline has just been learnt from a window of 60 magnitudes that are
\* not all the same, on a data point processed after one on which 60
\* magnitudes were buffered and the baseline was not learnt
C22_WitnessLater ==
    /\ processed >= 2
    /\ LET n == Len(points)
       IN  /\ points[n].learned
           /\ monitor.vibe_baseline_ready
           /\ monitor.vibe_baseline_std # StdFloor
           /\ n > ACCEL_BASELINE_SAMPLES
           /\ ~points[n - 1].ready /\ ~points[n - 1].learned

\* the baseline has just been learnt from 60 equal magnitudes, and the
\* standard deviation kept is the floor of 1e-6 g
C22_WitnessFloor ==
    /\ processed >= 1
    /\ Last(points).learned
    /\ monitor.vibe_baseline_std = StdFloor

\* _temp_warning_active after the data point i
TempActiveAfter(i) ==
    IF i < Len(points) THEN points[i + 1].temp_active
    ELSE monitor.temp_warning_active

\* C23: a high-temperature warning is produced exactly on a data point with
\* temp > 30 that finds the warning inactive, and leaves it active; the
\* warning becomes inactive only on a data point with temp < 29; a data
\* point with 29 <= temp <= 30 leaves the flag as it was; and between any two
\* high-temperature warnings there is a data point with temp < 29.
C23_TemperatureHysteresis ==
    LET high == ROOM_TEMP_C + TEMP_WARN_DELTA_C
        low  == high - TEMP_WARN_HYST_C
    IN  /\ \A i \in 1..Len(points) :
              /\ points[i].temperature <=>
                    (Degrees(points[i].temp) > high /\ ~points[i].temp_active)
              /\ points[i].temperature => TempActiveAfter(i)
              /\ (points[i].temp_active /\ ~TempActiveAfter(i)) =>
                    Degrees(points[i].temp) < low
              /\ (Degrees(points[i].temp) >= low /\ Degrees(points[i].temp) <= high) =>
                    TempActiveAfter(i) = points[i].temp_active
        /\ \A i, j \in 1..Len(points) :
              (i < j /\ points[i].temperature /\ points[j].temperature) =>
                 \E k \in (i + 1)..(j - 1) : Degrees(points[k].temp) < low
        /\ (points # <<>> /\ Last(points).temperature) =>
              "High temperature" \in Elements(monitor.warning)

\* a warning at 31 degrees, a point at 30 and a point at 29 degrees that
\* produced none and left the warning active
C23_Witness ==
    /\ processed >= 3
    /\ LET n == Len(points)
       IN  /\ points[n - 2].temperature /\ Degrees(points[n - 2].temp) > 30
           /\ Degrees(points[n - 1].temp) = 30 /\ ~points[n - 1].temperature
           /\ Degrees(points[n].temp) = 29 /\ ~points[n].temperature
           /\ monitor.temp_warning_active

\* two warnings with a point at 28 degrees between them
C23_WitnessSecondWarning ==
    /\ processed >= 3
    /\ LET n == Len(points)
       IN  /\ points[n - 2].temperature
           /\ Degrees(points[n - 1].temp) = 28 /\ points[n - 1].temp_active
           /\ points[n].temperature

\* C29: in every state of the vibration monitor _vibe_consec_high and
\* _vibe_consec_clear are not both positive, neither is negative, and both
\* are 0 while _vibe_baseline_ready is false.
C29_CountersExclusive ==
    /\ monitor.vibe_consec_high >= 0
    /\ monitor.vibe_consec_clear >= 0
    /\ ~(monitor.vibe_consec_high > 0 /\ monitor.vibe_consec_clear > 0)
    /\ ~monitor.vibe_baseline_ready =>
          (monitor.vibe_consec_high = 0 /\ monitor.vibe_consec_clear = 0)

\* a high evaluation has just followed a clear one: the count of high
\* evaluations is 1 and that of clear ones is back at 0
C29_Witness ==
    /\ processed >= 2
    /\ LET n == Len(points)
       IN  /\ points[n].evaluated /\ points[n].high
           /\ points[n - 1].evaluated /\ ~points[n - 1].high
    /\ monitor.vibe_baseline_ready
    /\ monitor.vibe_consec_high = 1
    /\ monitor.vibe_consec_clear = 0

\* the baseline has just been reset after twenty clear evaluations or more,
\* and both counts are 0
C29_WitnessAfterReset ==
    /\ processed >= 1
    /\ Last(points).reset
    /\ ~monitor.vibe_baseline_ready
    /\ monitor.vibe_consec_high = 0
    /\ monitor.vibe_consec_clear = 0

====
